---- MODULE Spec2Model ----
(***************************************************************************)
(* Verification model of the random video picker (file_picker).            *)
(*                                                                         *)
(* Two units run concurrently: the interactive control loop (run_app and   *)
(* loop_user_actions in main.rs) and the request handler stream_video of   *)
(* stream_server.rs.  They share one value, the StreamState                *)
(* Arc<Mutex<Option<PathBuf>>>.  The scan cache (scan_for_videos) and the  *)
(* history ledger (history_manager.rs) belong to the interactive loop.     *)
(*                                                                         *)
(* Option<T> is modelled as a sequence of length at most one: None is <<>> *)
(* and Some(x) is <<x>>.                                                   *)
(***************************************************************************)
EXTENDS Integers, Sequences, FiniteSets, TLC

\* ------------------------------------------------------------------ bounds
\* The ledger is unbounded in the program; picks stop at this length.
MaxHistory == 2
\* Length up to which add_to_history is applied on its own.
MaxLedger == 3
\* Utc::now() in the interactive loop returns a value in 1..MaxTime.
MaxTime == 1
\* Timestamps of the ledgers add_to_history is applied to on its own, and the
\* values Utc::now() returns there (the wall clock is not monotone).
MaxStamp == 2
\* Largest pick_count of the entries the weighted draw is applied to on its
\* own (usize in the program).
MaxCount == 11
\* Largest whole number of seconds in the decimal duration texts that
\* format_duration_string is applied to on its own.
MaxSeconds == 3700

\* ----------------------------------------------------------- value domains
None == <<>>
Some(x) == <<x>>

\* Folders the user may name (CLI flag, environment variable or prompt).
Roots == {"r1", "r2"}

\* File paths (PathBuf).  "x1.mp4" and "x2.mp4" stand for two names that are
\* not valid UTF-8 and differ only in their invalid bytes.
PathBufs == {"a.mp4", "x1.mp4", "x2.mp4"}

\* Ord for PathBuf, used by video_files.sort().
PathRank(p) == CASE p = "a.mp4" -> 1 [] p = "x1.mp4" -> 2 [] OTHER -> 3

\* Path::to_string_lossy: invalid sequences become U+FFFD, so the two
\* non-UTF-8 names get the same string.
to_string_lossy(p) == IF p \in {"x1.mp4", "x2.mp4"} THEN "x?.mp4" ELSE p

PathStrings == {to_string_lossy(p) : p \in PathBufs}

Times == 1..MaxTime
Stamps == 1..MaxStamp

\* The mutex-guarded value is written and read in two parts; NoneWord is the
\* discriminant of Option::None.
NoneWord == "none"
SlotOf(opt) == IF opt = None THEN [w1 |-> NoneWord, w2 |-> NoneWord]
               ELSE [w1 |-> opt[1], w2 |-> opt[1]]

\* Requests in flight at a time.
Requests == {"q1"}

\* ------------------------------------------------------------------- state
VARIABLES
    pc,                       \* position of the interactive unit
    current_folder_path_opt,  \* Option<PathBuf>, run_app
    folder_to_scan,           \* PathBuf of the current round ("" before the first)
    cached_folder_scan,       \* Option<(PathBuf, Vec<PathBuf>)>, run_app
    video_files_paths,        \* Vec<PathBuf> of the current round
    selected_video_entry,     \* Option<VideoEntry> of the current round
    history,                  \* Vec<HistoryEntry>, run_app
    history_file,             \* the persisted ledger
    stream_state_arc,         \* TRUE iff setup_streaming_server_logic gave a StreamState
    slot,                     \* the Option<PathBuf> inside the Mutex, in two parts
    lock,                     \* holder of the Mutex: "free", "ui" or a request
    is_current,               \* is_current_video_set_for_streaming, loop_user_actions
    ui_read,                  \* the part of the slot the loop has read so far
    req,                      \* per request: position, copied path, response
    server,                   \* "off", "unavailable", "running", "stopping", "stopped" or "timed_out"
    exit_code,                \* None while running, Some(0) or Some(1) after exit
    scan_log,                 \* the last two candidate requests, most recent first
    invalidated,              \* the cache was set to None since the last candidate request
    fresh_needed,             \* a root change or rescan happened since the last scan
    scan_note,                \* the last scan of the loop: was it due fresh, did it call the scanner
    set_log,                  \* paths passed to set so far, and the last completed set
    rec_log,                  \* the last record: ledger before, path, file outcome, result
    load_log,                 \* the load just made: file, file outcome, ledger before, result
    draw_log,                 \* the entries of the last weighted draw, each with its weight
    find_log,                 \* the last find_video_files call: directory, arguments, result
    fmt_log,                  \* the last format_duration_string call: input and result
    esc_pressed               \* a menu prompt has returned None (Esc) in this process

vars == <<pc, current_folder_path_opt, folder_to_scan, cached_folder_scan,
          video_files_paths, selected_video_entry, history, history_file,
          stream_state_arc, slot, lock, is_current, ui_read, req, server,
          exit_code, scan_log, invalidated, fresh_needed, scan_note, set_log,
          rec_log, load_log, draw_log,
        find_log, fmt_log, esc_pressed>>


\* ----------------------------------------------------------------- helpers
RECURSIVE SortPaths(_)
\* video_files.sort(): the paths of a set in ascending order.
SortPaths(S) ==
    IF S = {} THEN <<>>
    ELSE LET m == CHOOSE p \in S : \A q \in S : PathRank(p) <= PathRank(q)
         IN  <<m>> \o SortPaths(S \ {m})

\* What a successful find_video_files can return: a sorted list without
\* repetition.
FileLists == {SortPaths(S) : S \in SUBSET PathBufs}

\* Outcome of find_video_files(folder, recursive): Err, or Ok(sorted list).
FindOutcomes ==
    {[ok |-> FALSE, files |-> <<>>]} \cup {[ok |-> TRUE, files |-> l] : l \in FileLists}

Range(s) == {s[i] : i \in 1..Len(s)}

\* Number of ledger entries whose path string equals str.
Count(h, str) == Cardinality({i \in 1..Len(h) : h[i].path = str})

\* One step of the stable sort: e goes after every element that does not
\* compare greater, i.e. after every element with picked_at >= e.picked_at.
InsertDesc(t, e) ==
    LET k == Cardinality({i \in 1..Len(t) : t[i].picked_at >= e.picked_at})
    IN  SubSeq(t, 1, k) \o <<e>> \o SubSeq(t, k + 1, Len(t))

RECURSIVE SortDesc(_)
\* history.sort_by(|a, b| b.picked_at.cmp(&a.picked_at)): stable, descending.
SortDesc(s) ==
    IF s = <<>> THEN <<>>
    ELSE InsertDesc(SortDesc(SubSeq(s, 1, Len(s) - 1)), s[Len(s)])

IsSortedDesc(h) == \A i \in 1..(Len(h) - 1) : h[i].picked_at >= h[i + 1].picked_at

\* serde_json::to_writer_pretty / from_reader for Vec<HistoryEntry>: the
\* document is an array of objects, modelled as a sequence of pairs.
\* Variant: the timestamp is written with a coarser unit than it was taken in.
ToJsonCoarse(h) == [i \in 1..Len(h) |-> <<h[i].path, (h[i].picked_at + 1) \div 2>>]

ToJson(h) == [i \in 1..Len(h) |-> <<h[i].path, h[i].picked_at>>]
FromJson(d) == [i \in 1..Len(d) |-> [path |-> d[i][1], picked_at |-> d[i][2]]]

\* The history file: absent, a JSON document, or bytes that do not parse.
FileAbsent == [kind |-> "absent", data |-> <<>>]
FileCorrupt == [kind |-> "corrupt", data |-> <<>>]
FileJson(h) == [kind |-> "json", data |-> ToJson(h)]


\* ------------------------------------------------------ history_manager.rs
\* Outcomes of the file operations of load_history.
LoadIo == {"ok", "path_err", "io_err"}

\* Variant: a file that does not parse is an Err like any other failure.
load_history_strict(file, io) ==
    IF io = "path_err" THEN [ok |-> FALSE, history |-> <<>>, warning |-> FALSE]
    ELSE IF file.kind = "absent" THEN [ok |-> TRUE, history |-> <<>>, warning |-> FALSE]
    ELSE IF io = "io_err" THEN [ok |-> FALSE, history |-> <<>>, warning |-> FALSE]
    ELSE IF file.kind = "corrupt" THEN [ok |-> FALSE, history |-> <<>>, warning |-> TRUE]
    ELSE [ok |-> TRUE, history |-> FromJson(file.data), warning |-> FALSE]

\* load_history(): [ok, history, warning].  A missing file gives Ok(empty); an
\* unparsable file gives Ok(empty) after the warning on stderr; a failure of
\* get_history_path or of File::open other than NotFound is an Err.
load_history(file, io) ==
    IF io = "path_err" THEN [ok |-> FALSE, history |-> <<>>, warning |-> FALSE]
    ELSE IF file.kind = "absent" THEN [ok |-> TRUE, history |-> <<>>, warning |-> FALSE]
    ELSE IF io = "io_err" THEN [ok |-> FALSE, history |-> <<>>, warning |-> FALSE]
    ELSE IF file.kind = "corrupt" THEN [ok |-> TRUE, history |-> <<>>, warning |-> TRUE]
    ELSE [ok |-> TRUE, history |-> FromJson(file.data), warning |-> FALSE]

\* Outcomes of the file operations of add_to_history: everything succeeds;
\* get_history_path fails; OpenOptions::open fails; a write fails inside
\* to_writer_pretty; the buffered bytes are lost when the BufWriter is
\* dropped (its flush error is discarded).
SaveIo == {"ok", "path_err", "open_err", "write_err", "flush_err"}

\* Variant: the entry is pushed and the vector is left in insertion order.
add_to_history_unsorted(h, file_path, now, file, io) ==
    LET entry == [path |-> to_string_lossy(file_path), picked_at |-> now]
        h1 == Append(h, entry)
    IN  [history |-> h1,
         ok |-> io \in {"ok", "flush_err"},
         file |-> CASE io = "ok" -> FileJson(h1)
                    [] io \in {"path_err", "open_err"} -> file
                    [] OTHER -> FileCorrupt]

\* A record that keeps one entry per path: an entry whose path is already in
\* the ledger replaces the older one.
add_to_history_dedup(h, file_path, now, file, io) ==
    LET entry == [path |-> to_string_lossy(file_path), picked_at |-> now]
        kept == SelectSeq(h, LAMBDA e : e.path # entry.path)
        h1 == SortDesc(Append(kept, entry))
    IN  [history |-> h1,
         ok |-> io \in {"ok", "flush_err"},
         file |-> CASE io = "ok" -> FileJson(h1)
                    [] io \in {"path_err", "open_err"} -> file
                    [] OTHER -> FileCorrupt]

\* add_to_history(history, file_path): [history, ok, file].  The entry is
\* pushed and the vector sorted before anything touches the file system.
add_to_history(h, file_path, now, file, io) ==
    LET entry == [path |-> to_string_lossy(file_path), picked_at |-> now]
        h1 == SortDesc(Append(h, entry))
    IN  [history |-> h1,
         ok |-> io \in {"ok", "flush_err"},
         file |-> CASE io = "ok" -> FileJson(h1)
                    [] io \in {"path_err", "open_err"} -> file
                    [] OTHER -> FileCorrupt]

\* ---------------------------------------------------------- video_entry.rs
\* Variant: the count itself is the divisor.
weight_no_offset(pick_count) == [num |-> 1, den |-> pick_count]

\* Variant: every entry weighs the same.
weight_flat(pick_count) == [num |-> 1, den |-> 1]

\* VideoEntry::weight: 1.0 / (pick_count as f64 + 1.0), kept as the fraction
\* num/den.  The f64 quotient is the correctly rounded value of this fraction
\* and differs between consecutive counts as long as the count is below 2^52.
weight(pick_count) == [num |-> 1, den |-> pick_count + 1]

\* ------------------------------------------------------------------ main.rs
\* A candidate request that never looks at the cache.
scan_for_videos_uncached(folder, cache, cur, found) ==
    IF found.ok
    THEN [ok |-> TRUE, files |-> found.files,
          cache |-> Some([root |-> folder, files |-> found.files]), cur |-> cur,
          scanned |-> TRUE]
    ELSE [ok |-> FALSE, files |-> <<>>, cache |-> None, cur |-> None,
          scanned |-> TRUE]

\* A candidate request that leaves the cache alone when the scanner fails.
scan_for_videos_keeps_cache(folder, cache, cur, found) ==
    IF cache # None /\ cache[1].root = folder
    THEN [ok |-> TRUE, files |-> cache[1].files, cache |-> cache, cur |-> cur,
          scanned |-> FALSE]
    ELSE IF found.ok
    THEN [ok |-> TRUE, files |-> found.files,
          cache |-> Some([root |-> folder, files |-> found.files]), cur |-> cur,
          scanned |-> TRUE]
    ELSE [ok |-> FALSE, files |-> <<>>, cache |-> cache, cur |-> None,
          scanned |-> TRUE]

\* A candidate request that stores only non-empty results.
scan_for_videos_skips_empty(folder, cache, cur, found) ==
    IF cache # None /\ cache[1].root = folder
    THEN [ok |-> TRUE, files |-> cache[1].files, cache |-> cache, cur |-> cur,
          scanned |-> FALSE]
    ELSE IF found.ok
    THEN [ok |-> TRUE, files |-> found.files,
          cache |-> IF found.files = <<>> THEN None
                    ELSE Some([root |-> folder, files |-> found.files]),
          cur |-> cur, scanned |-> TRUE]
    ELSE [ok |-> FALSE, files |-> <<>>, cache |-> None, cur |-> None,
          scanned |-> TRUE]

\* scan_for_videos(folder_to_scan, _, cached_folder_scan, current_folder_path_opt):
\* [ok, files, cache, cur, scanned].  `found` is what find_video_files returns
\* if it is called; scanned tells whether it was called.
scan_for_videos(folder, cache, cur, found) ==
    IF cache # None /\ cache[1].root = folder
    THEN [ok |-> TRUE, files |-> cache[1].files, cache |-> cache, cur |-> cur,
          scanned |-> FALSE]
    ELSE IF found.ok
    THEN [ok |-> TRUE, files |-> found.files,
          cache |-> Some([root |-> folder, files |-> found.files]), cur |-> cur,
          scanned |-> TRUE]
    ELSE [ok |-> FALSE, files |-> <<>>, cache |-> None, cur |-> None,
          scanned |-> TRUE]

\* Variant: the entry is built from the string form of the candidate.
video_entries_lossy(files, h) ==
    [i \in 1..Len(files) |->
        [path |-> to_string_lossy(files[i]),
         pick_count |-> Count(h, to_string_lossy(files[i]))]]

\* Variant: every entry of the ledger counts for every candidate.
video_entries_counts_all(files, h) ==
    [i \in 1..Len(files) |-> [path |-> files[i], pick_count |-> Len(h)]]

\* The VideoEntry list built by select_video_logic: one per candidate, with
\* the number of history entries whose path equals the candidate's string.
video_entries(files, h) ==
    [i \in 1..Len(files) |->
        [path |-> files[i], pick_count |-> Count(h, to_string_lossy(files[i]))]]

\* Variant: with no candidates a default entry is returned.
select_video_logic_default(files, h, draw) ==
    LET entries == video_entries(files, h)
    IN  IF entries = <<>>
        THEN [ok |-> TRUE, entry |-> Some([path |-> "a.mp4", pick_count |-> 0])]
        ELSE [ok |-> TRUE, entry |-> Some(entries[draw])]

\* select_video_logic(video_files_paths, history): [ok, entry].  `draw` is the
\* index choose_weighted returns; it can be any index of positive weight.
select_video_logic(files, h, draw) ==
    LET entries == video_entries(files, h)
    IN  IF entries = <<>> THEN [ok |-> FALSE, entry |-> None]
        ELSE [ok |-> TRUE, entry |-> Some(entries[draw])]

Draws(files, h) ==
    {i \in 1..Len(files) : weight(video_entries(files, h)[i].pick_count).num > 0}


\* ------------------------------------------------------------ initial state
\* History files the program can find at startup: none, one that does not
\* parse, or one it wrote earlier (sorted, most recent first).
InitFiles ==
    {FileAbsent, FileCorrupt, FileJson(<<[path |-> "a.mp4", picked_at |-> 1]>>)}

\* A request that has not started: nothing copied, nothing opened, no response.
NoRequest == [pc |-> "idle", w1 |-> NoneWord, w2 |-> NoneWord, open_result |-> "",
              served |-> None, status |-> "", body |-> ""]

NoSetLog == [passed |-> {}, last |-> None]
NoScanNote == [fresh |-> "", scanned |-> FALSE]

\* Initial values, by group; each specification's Init sets pc and its inputs.
BlankRound ==
    /\ folder_to_scan = ""
    /\ video_files_paths = <<>>
    /\ selected_video_entry = None
    /\ is_current = FALSE
    /\ scan_note = NoScanNote
    /\ fresh_needed = ""

BlankShared ==
    /\ stream_state_arc = FALSE
    /\ slot = SlotOf(None)
    /\ lock = "free"
    /\ ui_read = NoneWord
    /\ set_log = NoSetLog
    /\ req = [q \in Requests |-> NoRequest]
    /\ server = "off"
    /\ exit_code = None

BlankHarness ==
    /\ scan_log = <<>>
    /\ invalidated = FALSE
    /\ rec_log = None
    /\ load_log = None
    /\ draw_log = <<>>
    /\ find_log = None
    /\ fmt_log = None
    /\ esc_pressed = FALSE

\* The process before run_app runs: the history file is whatever an earlier
\* run left.
Init ==
    /\ pc = "start"
    /\ history_file \in InitFiles
    /\ history = <<>>
    /\ current_folder_path_opt = None
    /\ cached_folder_scan = None
    /\ BlankRound /\ BlankShared /\ BlankHarness

\* Groups of variables, for the frame conditions.
round_vars == <<folder_to_scan, video_files_paths, selected_video_entry,
               is_current, scan_note>>
root_vars == <<current_folder_path_opt, cached_folder_scan>>
note_vars == <<fresh_needed>>
ledger_vars == <<history, history_file>>
mutex_vars == <<slot, lock, ui_read, set_log>>
env_vars == <<stream_state_arc, server, req>>
log_vars == <<scan_log, invalidated, rec_log, load_log, draw_log, find_log,
             fmt_log>>
harness_vars == <<log_vars, esc_pressed>>

\* `continue 'outer` and `break 'outer`: the locals of the iteration
\* (folder_to_scan, video_files_paths, selected_video_entry and the locals of
\* loop_user_actions) go out of scope.
EndRound ==
    /\ folder_to_scan' = ""
    /\ video_files_paths' = <<>>
    /\ selected_video_entry' = None
    /\ is_current' = FALSE
    /\ scan_note' = NoScanNote

\* An Err that reaches main: the cause is printed and process::exit(1) runs.
Fatal == pc' = "exited" /\ exit_code' = Some(1)

\* Outcomes of setup_streaming_server_logic: the --no-streaming flag, no
\* local address, bind failure, or a running server.
StreamSetups == {"flag", "no_ip", "bind_err", "ok"}

\* Variant: the StreamState created before run_server is handed out whenever
\* streaming was not switched off.
StreamEnabledUnlessFlag(setup) == setup # "flag"

\* setup_streaming_server_logic returns Some((handle, state, ip)) only in the
\* Ok arm of run_server; every other arm returns None.
StreamEnabled(setup) == setup = "ok"

\* Variant: the bind error is propagated to run_app.
SetupFailsOnBind(setup) == setup = "bind_err"

\* setup_streaming_server_logic returns Ok in every arm, so the `?` of
\* run_app 2 never takes the error path.
SetupFails(setup) == FALSE

\* The server after the setup: spawned, switched off by the flag, or not
\* available (no local address, or the bind failed).
ServerAfterSetup(setup) ==
    IF setup = "ok" THEN "running"
    ELSE IF setup = "flag" THEN "off" ELSE "unavailable"

\* What load_log keeps of a load_history call: the file and the outcome of
\* the file operations, the ledger in memory before the call, whether the
\* file was last written by an add_to_history that completed, and the result.
LoadNote(file, io, before, persisted, r) ==
    Some([file |-> file, io |-> io, before |-> before, persisted |-> persisted,
          ok |-> r.ok, history |-> r.history, warning |-> r.warning])

\* What rec_log keeps of an add_to_history call.
RecNote(before, p, io, r) ==
    Some([before |-> before, path |-> p, io |-> io, ok |-> r.ok])

\* run_app, steps 1 to 3.
InitializeApp ==
    /\ pc = "start"
    /\ \E io \in LoadIo, setup \in StreamSetups, folder \in {None} \cup {Some(r) : r \in Roots} :
          LET r == load_history(history_file, io)
          IN  /\ load_log' = LoadNote(history_file, io, history, FALSE, r)
              /\ IF ~r.ok \/ SetupFails(setup)
                 THEN /\ Fatal
                      /\ UNCHANGED <<history, stream_state_arc, server,
                                     current_folder_path_opt>>
                 ELSE /\ history' = r.history
                      /\ stream_state_arc' = StreamEnabled(setup)
                      /\ server' = ServerAfterSetup(setup)
                      /\ current_folder_path_opt' = folder
                      /\ pc' = "get_folder"
                      /\ UNCHANGED exit_code
    /\ UNCHANGED <<round_vars, cached_folder_scan, note_vars, history_file,
                   mutex_vars, req, scan_log, invalidated, rec_log, draw_log,
        find_log, fmt_log, esc_pressed>>

\* get_or_prompt_folder_path up to the prompt: the current folder if there is
\* one, otherwise the cache is cleared and the prompt is shown.  The Result of
\* load_history has been consumed by now, and its note is dropped.
GetFolder ==
    /\ pc = "get_folder"
    /\ IF current_folder_path_opt # None
       THEN /\ folder_to_scan' = current_folder_path_opt[1]
            /\ pc' = "validate"
            /\ UNCHANGED <<cached_folder_scan, fresh_needed>>
       ELSE /\ cached_folder_scan' = None
            /\ fresh_needed' = "root"
            /\ pc' = "prompt_folder"
            /\ UNCHANGED folder_to_scan
    /\ load_log' = None
    /\ UNCHANGED <<current_folder_path_opt, video_files_paths,
                   selected_video_entry, is_current, scan_note, ledger_vars,
                   mutex_vars, env_vars, exit_code, scan_log, invalidated,
                   rec_log, draw_log,
        find_log, fmt_log, esc_pressed>>

\* The user answers the folder prompt.
PromptFolderAnswer ==
    /\ pc = "prompt_folder"
    /\ \E r \in Roots : folder_to_scan' = r
    /\ pc' = "validate"
    /\ UNCHANGED <<video_files_paths, selected_video_entry, is_current,
                   scan_note, root_vars, note_vars, ledger_vars, mutex_vars,
                   env_vars, exit_code, harness_vars>>

\* The folder prompt fails (Ctrl+C): run_app breaks out of the loop.
PromptFolderCancel ==
    /\ pc = "prompt_folder"
    /\ pc' = "shutdown"
    /\ UNCHANGED <<round_vars, root_vars, note_vars, ledger_vars, mutex_vars,
                   env_vars, exit_code, harness_vars>>

\* Variant: a folder that failed the validation stays the current folder.
InvalidRootKept == current_folder_path_opt

\* What validate_folder_path assigns to current_folder_path_opt when is_dir
\* or read_dir fails.
InvalidRootReset == None

\* validate_folder_path and run_app 4.2: is_dir and read_dir are observations
\* of the file system.
ValidateFolder ==
    /\ pc = "validate"
    /\ \E valid \in BOOLEAN :
          IF valid
          THEN /\ current_folder_path_opt' = Some(folder_to_scan)
               /\ pc' = "scan"
               /\ UNCHANGED <<cached_folder_scan, round_vars>>
          ELSE /\ current_folder_path_opt' = InvalidRootReset
               /\ cached_folder_scan' = None
               /\ pc' = "get_folder"
               /\ EndRound
    /\ UNCHANGED <<note_vars, ledger_vars, mutex_vars, env_vars, exit_code,
                   harness_vars>>

\* Variant: the list goes to the selection without the test.
AfterScanUnchecked(files) == "select"

\* run_app 4.4: `if video_files_paths.is_empty()` leads to the no-videos menu,
\* whose two outcomes both leave the iteration; otherwise 4.5 follows.
AfterScan(files) == IF files = <<>> THEN "no_videos" ELSE "select"

\* run_app 4.3 and the test of 4.4: scan_for_videos, then the branch on an
\* empty list.
ScanForVideos ==
    /\ pc = "scan"
    /\ \E found \in FindOutcomes :
          LET r == scan_for_videos(folder_to_scan, cached_folder_scan,
                                   current_folder_path_opt, found)
          IN  /\ cached_folder_scan' = r.cache
              /\ current_folder_path_opt' = r.cur
              /\ IF r.ok
                 THEN /\ video_files_paths' = r.files
                      /\ scan_note' = [fresh |-> fresh_needed, scanned |-> r.scanned]
                      /\ pc' = AfterScan(r.files)
                      /\ UNCHANGED <<folder_to_scan, selected_video_entry, is_current>>
                 ELSE /\ pc' = "get_folder"
                      /\ EndRound
    /\ fresh_needed' = ""
    /\ UNCHANGED <<ledger_vars, mutex_vars, env_vars, exit_code, harness_vars>>

\* What interact_opt can return for the three items of the no-videos menu:
\* None after Esc, or the index of the chosen item.
NoVideosAnswers == {None, Some(0), Some(1), Some(2)}

\* Variant: without a choice the default item (index 0) is taken.
NoVideosActionDefault(answer) == IF answer = None THEN 0 ELSE answer[1]

\* .unwrap_or(2): without a choice the action is Quit (index 2).
NoVideosAction(answer) == IF answer = None THEN 2 ELSE answer[1]

\* The prompt of the no-videos menu returns an answer that stands for item k.
NoVideosChosen(k) ==
    \E answer \in NoVideosAnswers :
        /\ NoVideosAction(answer) = k
        /\ esc_pressed' = (esc_pressed \/ answer = None)

\* handle_no_videos_found_action_logic, "Choose another folder".
NoVideosChooseFolder ==
    /\ pc = "no_videos"
    /\ NoVideosChosen(0)
    /\ current_folder_path_opt' = None
    /\ cached_folder_scan' = None
    /\ fresh_needed' = "root"
    /\ pc' = "get_folder"
    /\ EndRound
    /\ UNCHANGED <<ledger_vars, mutex_vars, env_vars, exit_code, log_vars>>

\* Variant: the cache is cleared when the history has been shown.
ViewHistoryCacheCleared == None

\* view_history gets the ledger only; the cache is as it was afterwards.
ViewHistoryCache == cached_folder_scan

\* handle_no_videos_found_action_logic, "View history": view_history, then
\* Continue; a failed prompt inside view_history is an Err of run_app.
NoVideosViewHistory ==
    /\ pc = "no_videos"
    /\ NoVideosChosen(1)
    /\ \E shown \in BOOLEAN :
          IF shown
          THEN pc' = "get_folder" /\ EndRound /\ UNCHANGED exit_code
          ELSE Fatal /\ UNCHANGED round_vars
    /\ cached_folder_scan' = ViewHistoryCache
    /\ UNCHANGED <<current_folder_path_opt, note_vars, ledger_vars, mutex_vars,
                   env_vars, log_vars>>

\* handle_no_videos_found_action_logic, "Quit" or Esc: Break.
NoVideosQuit ==
    /\ pc = "no_videos"
    /\ NoVideosChosen(2)
    /\ pc' = "shutdown"
    /\ EndRound
    /\ UNCHANGED <<root_vars, note_vars, ledger_vars, mutex_vars, env_vars,
                   exit_code, log_vars>>

\* handle_no_videos_found_action_logic: the Select prompt itself fails.
NoVideosPromptError ==
    /\ pc = "no_videos"
    /\ Fatal
    /\ UNCHANGED <<round_vars, root_vars, note_vars, ledger_vars, mutex_vars,
                   env_vars, harness_vars>>

\* Variant: the action menu follows the selection directly.
AfterSelectMenu == "menu_build"

\* run_app 4.6: display_selected_video_info and add_to_history follow a
\* successful selection, before loop_user_actions.
AfterSelect == "record"

\* run_app 4.5: select_video_logic; on Err the root and the cache are reset.
SelectVideo ==
    /\ pc = "select"
    /\ Len(history) < MaxHistory
    /\ IF video_files_paths = <<>>
       THEN /\ current_folder_path_opt' = None
            /\ cached_folder_scan' = None
            /\ pc' = "get_folder"
            /\ EndRound
       ELSE /\ \E draw \in Draws(video_files_paths, history) :
                  selected_video_entry' =
                      select_video_logic(video_files_paths, history, draw).entry
            /\ pc' = AfterSelect
            /\ UNCHANGED <<root_vars, folder_to_scan, video_files_paths,
                           is_current, scan_note>>
    /\ UNCHANGED <<note_vars, ledger_vars, mutex_vars, env_vars, exit_code,
                   harness_vars>>

\* run_app, display_selected_video_info and add_to_history(...)?.
RecordPick ==
    /\ pc = "record"
    /\ \E now \in Times, io \in SaveIo :
          LET r == add_to_history(history, selected_video_entry[1].path, now,
                                  history_file, io)
          IN  /\ history' = r.history
              /\ history_file' = r.file
              /\ rec_log' = RecNote(history, selected_video_entry[1].path, io, r)
              /\ IF r.ok THEN pc' = "menu_build" /\ UNCHANGED exit_code ELSE Fatal
    /\ UNCHANGED <<round_vars, root_vars, note_vars, mutex_vars, env_vars,
                   scan_log, invalidated, load_log, draw_log,
        find_log, fmt_log, esc_pressed>>

\* ------------------------------------------------- the Mutex of StreamState
\* Variant: a lock that excludes nobody.
CanLockNoExclusion(t) == TRUE

\* Mutex::lock returns to thread t only when no thread holds the mutex.
CanLock(t) == lock = "free"

\* Variant: the guard lives until the end of the loop body, across the prompt.
MenuGuardKept == UNCHANGED lock

\* The MutexGuard of the `if let Ok(guard)` in loop_user_actions goes out of
\* scope when the comparison is done.
MenuGuardDrop == lock' = "free"

\* What a step inside loop_user_actions leaves alone.
menu_frame == <<folder_to_scan, video_files_paths, selected_video_entry,
                scan_note, root_vars, note_vars, ledger_vars, env_vars,
                harness_vars>>

\* loop_user_actions, top of the loop: with streaming enabled the slot is
\* locked to compare it with the selected file.
MenuLock ==
    /\ pc = "menu_build"
    /\ IF stream_state_arc
       THEN /\ CanLock("ui")
            /\ lock' = "ui"
            /\ pc' = "menu_read1"
       ELSE /\ pc' = "menu_prompt"
            /\ UNCHANGED lock
    /\ UNCHANGED <<is_current, slot, ui_read, set_log, exit_code, menu_frame>>

\* The comparison streaming_path == selected_file reads the first part.
MenuRead1 ==
    /\ pc = "menu_read1"
    /\ ui_read' = slot.w1
    /\ pc' = "menu_read2"
    /\ UNCHANGED <<is_current, slot, lock, set_log, exit_code, menu_frame>>

\* Variant: any path in the slot counts as the selected file.
SlotIsSome(first, second) == first # NoneWord /\ second # NoneWord

\* streaming_path == selected_file, on the two parts read.
SlotIsSelected(first, second) ==
    /\ first = selected_video_entry[1].path
    /\ second = selected_video_entry[1].path

\* ... reads the second part, and the guard is dropped at the end of the
\* `if let`, before the prompt.
MenuRead2 ==
    /\ pc = "menu_read2"
    /\ is_current' = SlotIsSelected(ui_read, slot.w2)
    /\ ui_read' = NoneWord
    /\ MenuGuardDrop
    /\ pc' = "menu_prompt"
    /\ UNCHANGED <<slot, set_log, exit_code, menu_frame>>

\* "Stream this video" is offered when streaming is on and the slot does not
\* hold the selected file; "Get Streaming Link" when it does.
OffersStream == stream_state_arc /\ ~is_current
OffersLink == stream_state_arc /\ is_current

\* The items of the action menu.
MenuItems ==
    {"Play locally"}
        \cup (IF OffersLink THEN {"Get Streaming Link (current video)"} ELSE {})
        \cup (IF OffersStream THEN {"Stream this video"} ELSE {})
        \cup {"Pick another from this folder", "Rescan current folder",
              "Choose a different folder", "View history", "Quit"}

\* What interact_opt can return: None after Esc, or the chosen item.
MenuAnswers == {None} \cup {Some(a) : a \in MenuItems}

\* .unwrap_or_else(position of "Quit"): without a choice the action is Quit.
MenuAction(answer) == IF answer = None THEN "Quit" ELSE answer[1]

\* The prompt of the action menu returns an answer that stands for action a.
MenuChosen(a) ==
    \E answer \in MenuAnswers :
        /\ MenuAction(answer) = a
        /\ esc_pressed' = (esc_pressed \/ answer = None)

\* What a choice in the action menu that stays in loop_user_actions leaves
\* alone.
choice_frame == <<folder_to_scan, video_files_paths, selected_video_entry,
                  scan_note, root_vars, note_vars, ledger_vars, env_vars,
                  log_vars>>

\* The end of an iteration of the inner loop: its locals go out of scope.
MenuAgain == pc' = "menu_build" /\ is_current' = FALSE

\* "Play locally": open::that, then the menu again.
MenuPlayLocally ==
    /\ pc = "menu_prompt"
    /\ MenuChosen("Play locally")
    /\ MenuAgain
    /\ UNCHANGED <<mutex_vars, exit_code, choice_frame>>

\* "Get Streaming Link (current video)": prints the URL, then the menu again.
MenuGetLink ==
    /\ pc = "menu_prompt"
    /\ OffersLink
    /\ MenuChosen("Get Streaming Link (current video)")
    /\ MenuAgain
    /\ UNCHANGED <<mutex_vars, exit_code, choice_frame>>

\* "View history": view_history(...)?, then the menu again.
MenuViewHistory ==
    /\ pc = "menu_prompt"
    /\ MenuChosen("View history")
    /\ \E shown \in BOOLEAN :
          IF shown THEN MenuAgain /\ UNCHANGED exit_code
          ELSE Fatal /\ UNCHANGED is_current
    /\ UNCHANGED <<mutex_vars, choice_frame>>

\* What a choice that leaves loop_user_actions keeps.
leave_frame == <<note_vars, ledger_vars, mutex_vars, env_vars, log_vars>>

\* Variant: the slot is emptied when the selected file is given up.
SlotAfterRoundCleared == SlotOf(None)

\* PickAnotherFromThisFolder does not touch the StreamState: the slot keeps
\* the path of the file streamed last.
SlotAfterRound == slot

\* "Pick another from this folder": the loop continues with root and cache
\* as they are.
MenuPickAnother ==
    /\ pc = "menu_prompt"
    /\ MenuChosen("Pick another from this folder")
    /\ pc' = "get_folder"
    /\ EndRound
    /\ slot' = SlotAfterRound
    /\ UNCHANGED <<root_vars, exit_code, note_vars, ledger_vars, lock, ui_read,
                   set_log, env_vars, log_vars>>

\* Variant: the rescan request leaves the cache as it is.
RescanCacheKept == cached_folder_scan

\* What RescanCurrentFolder assigns to cached_folder_scan when a current
\* folder is set.
RescanCache == None

\* "Rescan current folder": run_app 4.7 clears the cache.
MenuRescan ==
    /\ pc = "menu_prompt"
    /\ MenuChosen("Rescan current folder")
    /\ IF current_folder_path_opt # None
       THEN cached_folder_scan' = RescanCache /\ UNCHANGED current_folder_path_opt
       ELSE current_folder_path_opt' = None /\ cached_folder_scan' = None
    /\ fresh_needed' = "rescan"
    /\ pc' = "get_folder"
    /\ EndRound
    /\ UNCHANGED <<ledger_vars, mutex_vars, env_vars, exit_code, log_vars>>

\* Variant: the cache survives the change of the folder.
ChooseFolderCacheKept == cached_folder_scan

\* What ChooseDifferentFolder assigns to cached_folder_scan.
ChooseFolderCache == None

\* "Choose a different folder": run_app 4.7 clears the root and the cache.
MenuChooseFolder ==
    /\ pc = "menu_prompt"
    /\ MenuChosen("Choose a different folder")
    /\ current_folder_path_opt' = None
    /\ cached_folder_scan' = ChooseFolderCache
    /\ fresh_needed' = "root"
    /\ pc' = "get_folder"
    /\ EndRound
    /\ UNCHANGED <<ledger_vars, mutex_vars, env_vars, exit_code, log_vars>>

\* "Quit", or Esc: QuitApplication breaks out of the loop.
MenuQuit ==
    /\ pc = "menu_prompt"
    /\ MenuChosen("Quit")
    /\ pc' = "shutdown"
    /\ EndRound
    /\ UNCHANGED <<root_vars, exit_code, leave_frame>>

\* The Select prompt of the action menu fails: Err of run_app.
MenuPromptError ==
    /\ pc = "menu_prompt"
    /\ Fatal
    /\ UNCHANGED <<is_current, mutex_vars, menu_frame>>

\* "Stream this video": the choice leads to the locked update of the slot.
MenuStream ==
    /\ pc = "menu_prompt"
    /\ OffersStream
    /\ MenuChosen("Stream this video")
    /\ pc' = "set_lock"
    /\ UNCHANGED <<is_current, mutex_vars, exit_code, choice_frame>>

\* Variant: the slot is only filled while it is empty.
SetValueFirstWins ==
    IF slot.w1 = NoneWord THEN selected_video_entry[1].path ELSE slot.w1

\* The value *guard = Some(selected_file.clone()) stores.
SetValue == selected_video_entry[1].path

\* state_arc_ref_update.lock().unwrap()
SetLock ==
    /\ pc = "set_lock"
    /\ CanLock("ui")
    /\ lock' = "ui"
    /\ set_log' = [set_log EXCEPT !.passed = @ \cup {selected_video_entry[1].path}]
    /\ pc' = "set_write1"
    /\ UNCHANGED <<is_current, slot, ui_read, exit_code, menu_frame>>

\* *guard = Some(...): the first part is stored.
SetWrite1 ==
    /\ pc = "set_write1"
    /\ slot' = [slot EXCEPT !.w1 = SetValue]
    /\ pc' = "set_write2"
    /\ UNCHANGED <<is_current, lock, ui_read, set_log, exit_code, menu_frame>>

\* ... the second part is stored and the guard's scope ends; the URL and the
\* QR code are printed and the menu is shown again.
SetWrite2 ==
    /\ pc = "set_write2"
    /\ slot' = [slot EXCEPT !.w2 = SetValue]
    /\ lock' = "free"
    /\ set_log' = [set_log EXCEPT !.last = Some(selected_video_entry[1].path)]
    /\ MenuAgain
    /\ UNCHANGED <<ui_read, exit_code, menu_frame>>

\* run_app 5: with a server handle the graceful stop is requested, without
\* one the process says goodbye and returns Ok.
ShutdownBegin ==
    /\ pc = "shutdown"
    /\ IF server = "running"
       THEN server' = "stopping" /\ pc' = "stopping" /\ UNCHANGED exit_code
       ELSE pc' = "exited" /\ exit_code' = Some(0) /\ UNCHANGED server
    /\ UNCHANGED <<round_vars, root_vars, note_vars, ledger_vars, mutex_vars,
                   stream_state_arc, req, harness_vars>>

InFlight(q) == req[q].pc \notin {"idle", "done"}

\* shutdown_streaming_server_logic: stop(true) completes once no response is
\* in flight.
StopCompleted ==
    /\ pc = "stopping"
    /\ \A q \in Requests : ~InFlight(q)
    /\ server' = "stopped"
    /\ pc' = "exited"
    /\ exit_code' = Some(0)
    /\ UNCHANGED <<round_vars, root_vars, note_vars, ledger_vars, mutex_vars,
                   stream_state_arc, req, harness_vars>>

\* Variant: handle.stop(true) is awaited without a timeout.
StopWithoutTimeout ==
    /\ pc = "stopping"
    /\ \A q \in Requests : ~InFlight(q)
    /\ server' = "stopped"
    /\ pc' = "exited"
    /\ exit_code' = Some(0)
    /\ UNCHANGED <<round_vars, root_vars, note_vars, ledger_vars, mutex_vars,
                   stream_state_arc, req, harness_vars>>

\* shutdown_streaming_server_logic: the 10 second timeout elapses first.
StopTimedOut ==
    /\ pc = "stopping"
    /\ server' = "timed_out"
    /\ pc' = "exited"
    /\ exit_code' = Some(0)
    /\ UNCHANGED <<round_vars, root_vars, note_vars, ledger_vars, mutex_vars,
                   stream_state_arc, req, harness_vars>>

\* ---------------------------------------------------------- stream_server.rs
\* What a request step leaves alone.
req_frame == <<pc, round_vars, root_vars, note_vars, ledger_vars, ui_read,
               set_log, stream_state_arc, server, exit_code, harness_vars>>

\* The server process is alive and serving.
Serving == exit_code = None /\ server \in {"running", "stopping"}

\* GET /stream arrives and the worker starts stream_video.
ReqArrive(q) ==
    /\ exit_code = None /\ server = "running"
    /\ req[q].pc = "idle"
    /\ req' = [req EXCEPT ![q].pc = "wait"]
    /\ UNCHANGED <<slot, lock, req_frame>>

\* state.get_ref().lock().unwrap()
ReqLock(q) ==
    /\ Serving
    /\ req[q].pc = "wait"
    /\ CanLock(q)
    /\ lock' = q
    /\ req' = [req EXCEPT ![q].pc = "read1"]
    /\ UNCHANGED <<slot, req_frame>>

\* .clone(): the first part is copied.
ReqRead1(q) ==
    /\ Serving
    /\ req[q].pc = "read1"
    /\ req' = [req EXCEPT ![q].pc = "read2", ![q].w1 = slot.w1]
    /\ UNCHANGED <<slot, lock, req_frame>>

\* Variant: an empty slot is answered with an empty success response.
NotFoundResponseOk == [status |-> "200", body |-> ""]

\* The response to a request that found no selection.
NotFoundResponse == [status |-> "404", body |-> "No video selected for streaming"]

\* Variant: the guard is bound to a variable and lives on while the file is
\* opened and streamed.
ReqGuardKept == UNCHANGED lock

\* The MutexGuard is a temporary of the `let path_to_serve = match ...;`
\* statement and is dropped at its end, or at the return of the None arm.
ReqGuardDrop == lock' = "free"

\* Variant: the value is moved out of the slot (Option::take).
SlotAfterGetTaken == SlotOf(None)

\* maybe_path_guard.clone() copies the path; the slot keeps its value.
SlotAfterGet == slot

\* ... the second part is copied and the match is evaluated: None returns
\* NotFound, Some(p) goes on to open p.
ReqRead2(q) ==
    /\ Serving
    /\ req[q].pc = "read2"
    /\ IF req[q].w1 = NoneWord
       THEN req' = [req EXCEPT ![q].pc = "done", ![q].w2 = slot.w2,
                               ![q].status = NotFoundResponse.status,
                               ![q].body = NotFoundResponse.body]
       ELSE req' = [req EXCEPT ![q].pc = "open", ![q].w2 = slot.w2]
    /\ ReqGuardDrop
    /\ slot' = SlotAfterGet
    /\ UNCHANGED req_frame

\* Outcomes of NamedFile::open_async: the file opens, or an io::Error that `?`
\* turns into an error response.
OpenOutcomes == {"ok", "error"}

\* NamedFile::open_async(path_to_serve).await? and into_response(&req): a
\* request with a Range header gets 206, without one 200.
ReqOpen(q) ==
    /\ Serving
    /\ req[q].pc = "open"
    /\ \E out \in OpenOutcomes, range \in BOOLEAN :
          IF out = "ok"
          THEN req' = [req EXCEPT ![q].pc = "streaming", ![q].open_result = out,
                                  ![q].served = Some(<<req[q].w1, req[q].w2>>),
                                  ![q].status = IF range THEN "206" ELSE "200",
                                  ![q].body = "file"]
          ELSE req' = [req EXCEPT ![q].pc = "done", ![q].open_result = out,
                                  ![q].status = "error", ![q].body = "io error"]
    /\ UNCHANGED <<slot, lock, req_frame>>

\* The body has been sent.
ReqStreamEnd(q) ==
    /\ Serving
    /\ req[q].pc = "streaming"
    /\ req' = [req EXCEPT ![q].pc = "done"]
    /\ UNCHANGED <<slot, lock, req_frame>>

\* The exchange is over; the next request can use the connection.
ReqClose(q) ==
    /\ Serving
    /\ req[q].pc = "done"
    /\ req' = [req EXCEPT ![q] = NoRequest]
    /\ UNCHANGED <<slot, lock, req_frame>>

\* ------------------------------------------------------------ specification
Loop ==
    \/ InitializeApp \/ GetFolder \/ PromptFolderAnswer \/ PromptFolderCancel
    \/ ValidateFolder \/ ScanForVideos
    \/ NoVideosChooseFolder \/ NoVideosViewHistory \/ NoVideosQuit
    \/ NoVideosPromptError
    \/ SelectVideo \/ RecordPick
    \/ MenuLock \/ MenuRead1 \/ MenuRead2
    \/ MenuPlayLocally \/ MenuGetLink \/ MenuViewHistory \/ MenuPickAnother
    \/ MenuRescan \/ MenuChooseFolder \/ MenuQuit \/ MenuPromptError
    \/ MenuStream \/ SetLock \/ SetWrite1 \/ SetWrite2
    \/ ShutdownBegin \/ StopCompleted \/ StopTimedOut

Responder ==
    \E q \in Requests :
        \/ ReqArrive(q) \/ ReqLock(q) \/ ReqRead1(q) \/ ReqRead2(q)
        \/ ReqOpen(q) \/ ReqStreamEnd(q) \/ ReqClose(q)

Next == Loop \/ Responder

Spec == Init /\ [][Next]_vars

\* Scheduling: a thread that holds the mutex runs on to the end of its
\* critical section, and a thread blocked in Mutex::lock gets the mutex if it
\* is released again and again.  The timer of tokio::time::timeout fires, so
\* the wait for the graceful stop ends, and run_app goes on to its step 5
\* once the loop is left.  Nothing is assumed about the user,
\* about the arrival of requests or about the streaming of a file.
Fairness ==
    /\ WF_vars(MenuRead1) /\ WF_vars(MenuRead2)
    /\ WF_vars(SetWrite1) /\ WF_vars(SetWrite2)
    /\ SF_vars(SetLock)
    /\ \A q \in Requests :
          SF_vars(ReqLock(q)) /\ WF_vars(ReqRead1(q)) /\ WF_vars(ReqRead2(q))
    /\ WF_vars(StopCompleted \/ StopTimedOut)
    /\ WF_vars(ShutdownBegin)

FairSpec == Spec /\ Fairness


\* ------------------------------------------- scan_for_videos on its own
\* scan_for_videos is a function of its arguments: here it is called with
\* any folder, starting from any cache and any current folder, with the
\* callers' invalidations in between.
CacheValues ==
    {None} \cup {Some([root |-> r, files |-> l]) : r \in Roots, l \in FileLists}

InitCache ==
    /\ pc = "cache_unit"
    /\ cached_folder_scan \in CacheValues
    /\ current_folder_path_opt \in {None} \cup {Some(r) : r \in Roots}
    /\ history = <<>>
    /\ history_file = FileAbsent
    /\ BlankRound /\ BlankShared /\ BlankHarness

cache_frame == <<pc, selected_video_entry, is_current, scan_note, fresh_needed,
                 ledger_vars, mutex_vars, env_vars, exit_code, rec_log, load_log,
                 draw_log,
        find_log, fmt_log, esc_pressed>>

\* One candidate request; scan_log keeps the last two, most recent first,
\* each with whether the scanner failed in it, whether the cache was
\* invalidated since the request before it and whether the cache held a
\* record when it started.
CacheRequest ==
    /\ pc = "cache_unit"
    /\ \E folder \in Roots, found \in FindOutcomes :
          LET r == scan_for_videos(folder, cached_folder_scan,
                                   current_folder_path_opt, found)
              entry == [root |-> folder, ok |-> r.ok, files |-> r.files,
                        scanned |-> r.scanned,
                        scanner_ok |-> ~r.scanned \/ found.ok,
                        inval |-> invalidated,
                        held |-> cached_folder_scan # None]
          IN  /\ folder_to_scan' = folder
              /\ cached_folder_scan' = r.cache
              /\ current_folder_path_opt' = r.cur
              /\ video_files_paths' = r.files
              /\ scan_log' = <<entry>> \o (IF scan_log = <<>> THEN <<>> ELSE <<scan_log[1]>>)
              /\ invalidated' = ~r.ok
    /\ UNCHANGED cache_frame

\* A caller clears the cache (`*cached_folder_scan = None`).
CacheInvalidate ==
    /\ pc = "cache_unit"
    /\ cached_folder_scan' = None
    /\ invalidated' = TRUE
    /\ UNCHANGED <<current_folder_path_opt, folder_to_scan, video_files_paths,
                   scan_log, cache_frame>>

\* run_app 4.2: the validated folder becomes the current folder.
CacheSetRoot ==
    /\ pc = "cache_unit"
    /\ \E r \in Roots : current_folder_path_opt' = Some(r)
    /\ UNCHANGED <<cached_folder_scan, folder_to_scan, video_files_paths,
                   scan_log, invalidated, cache_frame>>

NextCache == CacheRequest \/ CacheInvalidate \/ CacheSetRoot

SpecCache == InitCache /\ [][NextCache]_vars

\* -------------------------------------------- history_manager.rs on its own
InitLedger ==
    /\ pc = "ledger_unit"
    /\ history = <<>>
    /\ history_file \in InitFiles
    /\ current_folder_path_opt = None
    /\ cached_folder_scan = None
    /\ BlankRound /\ BlankShared /\ BlankHarness

ledger_frame == <<pc, round_vars, root_vars, note_vars, mutex_vars, env_vars,
                  exit_code, scan_log, invalidated, draw_log,
        find_log, fmt_log, esc_pressed>>

\* load_history(): the ledger is replaced by what the file holds.
LedgerLoad ==
    /\ pc = "ledger_unit"
    /\ \E io \in LoadIo :
          LET r == load_history(history_file, io)
          IN  /\ history' = IF r.ok THEN r.history ELSE history
              /\ load_log' = LoadNote(history_file, io, history,
                                      rec_log # None /\ rec_log[1].io = "ok", r)
    /\ rec_log' = None
    /\ UNCHANGED <<history_file, ledger_frame>>

\* add_to_history(&mut history, file_path): rec_log keeps the ledger before
\* the call, the path, the outcome of the file operations and the result,
\* until the ledger is loaded again.
LedgerRecord ==
    /\ pc = "ledger_unit"
    /\ Len(history) < MaxLedger
    /\ \E p \in PathBufs, now \in Stamps, io \in SaveIo :
          LET r == add_to_history(history, p, now, history_file, io)
          IN  /\ history' = r.history
              /\ history_file' = r.file
              /\ rec_log' = RecNote(history, p, io, r)
              /\ load_log' = None
    /\ UNCHANGED ledger_frame

NextLedger == LedgerLoad \/ LedgerRecord

SpecLedger == InitLedger /\ [][NextLedger]_vars

\* ------------------------------------------ select_video_logic on its own
\* select_video_logic is called with any candidate list, the empty one
\* included, as run_app 4.5 calls it and handles its result; the ledger
\* grows by the picks, the slot holds any value.
InitSelect ==
    /\ pc = "select_unit"
    /\ history = <<>>
    /\ history_file = FileAbsent
    /\ current_folder_path_opt \in {Some(r) : r \in Roots}
    /\ cached_folder_scan = None
    /\ folder_to_scan = ""
    /\ video_files_paths = <<>>
    /\ selected_video_entry = None
    /\ is_current = FALSE
    /\ scan_note = NoScanNote
    /\ fresh_needed = ""
    /\ stream_state_arc = TRUE
    /\ slot \in {SlotOf(None)} \cup {SlotOf(Some(p)) : p \in PathBufs}
    /\ lock = "free"
    /\ ui_read = NoneWord
    /\ set_log = NoSetLog
    /\ req = [q \in Requests |-> NoRequest]
    /\ server = "running"
    /\ exit_code = None
    /\ BlankHarness

select_frame == <<folder_to_scan, is_current, scan_note, note_vars, mutex_vars,
                  env_vars, scan_log, invalidated, load_log, draw_log,
        find_log, fmt_log, esc_pressed>>

\* select_video_logic(&video_files_paths, &history), run_app 4.5.
SelectCall ==
    /\ pc = "select_unit"
    /\ \E files \in FileLists :
          \E draw \in IF files = <<>> THEN {1} ELSE Draws(files, history) :
             LET r == select_video_logic(files, history, draw)
             IN  /\ video_files_paths' = files
                 /\ selected_video_entry' = r.entry
                 /\ pc' = IF r.ok THEN "select_ok" ELSE "select_err"
    /\ UNCHANGED <<root_vars, ledger_vars, exit_code, rec_log, select_frame>>

\* The Err arm of run_app 4.5: the root and the cache are reset and the
\* iteration ends.
SelectErr ==
    /\ pc = "select_err"
    /\ current_folder_path_opt' = None
    /\ cached_folder_scan' = None
    /\ video_files_paths' = <<>>
    /\ selected_video_entry' = None
    /\ pc' = "select_unit"
    /\ UNCHANGED <<ledger_vars, exit_code, rec_log, select_frame>>

\* The Ok arm: the entry is displayed and recorded (add_to_history(...)?).
SelectOk ==
    /\ pc = "select_ok"
    /\ Len(history) < MaxLedger
    /\ \E now \in Stamps, io \in SaveIo :
          LET r == add_to_history(history, selected_video_entry[1].path, now,
                                  history_file, io)
          IN  /\ history' = r.history
              /\ history_file' = r.file
              /\ rec_log' = RecNote(history, selected_video_entry[1].path, io, r)
              /\ IF r.ok THEN pc' = "select_unit" /\ UNCHANGED exit_code ELSE Fatal
    /\ video_files_paths' = <<>>
    /\ selected_video_entry' = None
    /\ UNCHANGED <<root_vars, select_frame>>

NextSelect == SelectCall \/ SelectErr \/ SelectOk

SpecSelect == InitSelect /\ [][NextSelect]_vars

\* --------------------------------------------- the weighted draw on its own
\* VideoEntry::new(path, pick_count).
VideoEntry_new(path, pick_count) == [path |-> path, pick_count |-> pick_count]

\* The weight choose_weighted gets for each entry from |item| item.weight().
entry_weights(entries) ==
    [i \in 1..Len(entries) |->
        [path |-> entries[i].path, pick_count |-> entries[i].pick_count,
         weight |-> weight(entries[i].pick_count)]]

\* choose_weighted(&mut rng, |item| item.weight()): the entry at the drawn
\* index, which is an index of positive weight; Err when no weight is
\* positive.
WeightedDraws(entries) ==
    {i \in 1..Len(entries) : weight(entries[i].pick_count).num > 0}
choose_weighted(entries, draw) == entries[draw]

\* Entry lists over the candidates with any pick counts up to MaxCount.
EntryLists ==
    UNION {{[i \in 1..Len(files) |-> VideoEntry_new(files[i], counts[i])] :
               counts \in [1..Len(files) -> 0..MaxCount]} :
           files \in FileLists \ {<<>>}}

InitDraw ==
    /\ pc = "draw_unit"
    /\ history = <<>>
    /\ history_file = FileAbsent
    /\ current_folder_path_opt = None
    /\ cached_folder_scan = None
    /\ BlankRound /\ BlankShared /\ BlankHarness

draw_frame == <<folder_to_scan, is_current, scan_note, root_vars, note_vars,
                ledger_vars, mutex_vars, env_vars, exit_code, scan_log,
                invalidated, rec_log, load_log, find_log, fmt_log, esc_pressed>>

\* The draw of select_video_logic, applied to any entry list.
DrawCall ==
    /\ pc = "draw_unit"
    /\ \E entries \in EntryLists :
          /\ WeightedDraws(entries) # {}
          /\ \E draw \in WeightedDraws(entries) :
                selected_video_entry' = Some(choose_weighted(entries, draw))
          /\ video_files_paths' = [i \in 1..Len(entries) |-> entries[i].path]
          /\ draw_log' = entry_weights(entries)
    /\ pc' = "draw_done"
    /\ UNCHANGED draw_frame

\* The entries go out of scope.
DrawReturn ==
    /\ pc = "draw_done"
    /\ video_files_paths' = <<>>
    /\ selected_video_entry' = None
    /\ draw_log' = <<>>
    /\ pc' = "draw_unit"
    /\ UNCHANGED draw_frame

NextDraw == DrawCall \/ DrawReturn

SpecDraw == InitDraw /\ [][NextDraw]_vars

\* --------------------------------------------- find_video_files on its own
\* config.rs: the recognized extensions, all lowercase.
VIDEO_EXTENSIONS ==
    {"mp4", "mkv", "avi", "mov", "webm", "flv", "wmv", "mpg", "mpeg", "m4v"}

\* Variant: the extension is compared as it is written.
to_lowercase_kept(ext) == ext

\* str::to_lowercase, on the extensions that occur below.
to_lowercase(ext) ==
    CASE ext = "MP4" -> "mp4" [] ext = "Mkv" -> "mkv" [] OTHER -> ext

\* What a directory can hold, in the order of Path's Ord (component by
\* component): the path below the root, its depth, what Path::is_file gives
\* for it (symbolic links are followed), and path.extension().to_str().
DirEntries ==
    << [name |-> "A.MP4",     depth |-> 1, is_file |-> TRUE,  ext |-> Some("MP4")],
       [name |-> "b.mkv",     depth |-> 1, is_file |-> TRUE,  ext |-> Some("mkv")],
       [name |-> "c.txt",     depth |-> 1, is_file |-> TRUE,  ext |-> Some("txt")],
       [name |-> "d",         depth |-> 1, is_file |-> TRUE,  ext |-> None],
       [name |-> "e.mp4",     depth |-> 1, is_file |-> FALSE, ext |-> Some("mp4")],
       [name |-> "sub",       depth |-> 1, is_file |-> FALSE, ext |-> None],
       [name |-> "sub/f.Mkv", depth |-> 2, is_file |-> TRUE,  ext |-> Some("Mkv")],
       [name |-> "sub/g.jpg", depth |-> 2, is_file |-> TRUE,  ext |-> Some("jpg")] >>

EntryRank(name) == CHOOSE i \in 1..Len(DirEntries) : DirEntries[i].name = name

\* The directories: any set of entries in which an entry of depth 2 comes
\* with its parent.
Trees ==
    {t \in SUBSET (1..Len(DirEntries)) :
        (\E i \in t : DirEntries[i].depth = 2) => EntryRank("sub") \in t}

\* WalkDir::new(folder_path).min_depth(1), with max_depth(1) unless recursive.
Walked(tree, recursive) ==
    {i \in tree : recursive \/ DirEntries[i].depth = 1}

\* The test of the loop body: a file whose extension, in lowercase, is in
\* VIDEO_EXTENSIONS.
IsVideoFile(e) ==
    /\ e.is_file
    /\ e.ext # None
    /\ to_lowercase(e.ext[1]) \in VIDEO_EXTENSIONS

\* The orders in which the walk can push the entries of S: the order of a
\* directory listing is not determined.
RECURSIVE Orderings(_)
Orderings(S) ==
    IF S = {} THEN {<<>>}
    ELSE UNION {{<<x>> \o o : o \in Orderings(S \ {x})} : x \in S}

\* video_files.sort(): ascending in Path's Ord.
RECURSIVE sort_paths(_)
sort_paths(v) ==
    IF v = <<>> THEN <<>>
    ELSE LET m == CHOOSE i \in 1..Len(v) :
                      \A j \in 1..Len(v) : EntryRank(v[i]) <= EntryRank(v[j])
         IN  <<v[m]>> \o sort_paths([k \in 1..(Len(v) - 1) |->
                                         IF k < m THEN v[k] ELSE v[k + 1]])

\* find_video_files(folder_path, recursive): [ok, files].  is_dir is what
\* folder_path.is_dir() gives, walk_ok whether every entry of the walk could
\* be read, pushed the order in which the matching entries were pushed.
find_video_files(is_dir, recursive, walk_ok, pushed) ==
    IF ~is_dir THEN [ok |-> FALSE, files |-> <<>>]
    ELSE IF ~walk_ok THEN [ok |-> FALSE, files |-> <<>>]
    ELSE [ok |-> TRUE, files |-> sort_paths(pushed)]

InitFind ==
    /\ pc = "find_unit"
    /\ history = <<>>
    /\ history_file = FileAbsent
    /\ current_folder_path_opt = None
    /\ cached_folder_scan = None
    /\ BlankRound /\ BlankShared /\ BlankHarness

find_frame == <<round_vars, root_vars, note_vars, ledger_vars, mutex_vars,
                env_vars, exit_code, scan_log, invalidated, rec_log, load_log,
                draw_log, fmt_log, esc_pressed>>

\* One call, on any directory and with either setting of the recursion.
FindCall ==
    /\ pc = "find_unit"
    /\ \E tree \in Trees, is_dir \in BOOLEAN, recursive \in BOOLEAN,
          walk_ok \in BOOLEAN :
          \E pushed \in Orderings({DirEntries[i].name :
                         i \in {j \in Walked(tree, recursive) :
                                   IsVideoFile(DirEntries[j])}}) :
             find_log' = Some([tree |-> tree, is_dir |-> is_dir,
                               recursive |-> recursive, walk_ok |-> walk_ok,
                               result |-> find_video_files(is_dir, recursive,
                                                           walk_ok, pushed)])
    /\ pc' = "find_done"
    /\ UNCHANGED find_frame

\* The caller has taken the result.
FindReturn ==
    /\ pc = "find_done"
    /\ find_log' = None
    /\ pc' = "find_unit"
    /\ UNCHANGED find_frame

NextFind == FindCall \/ FindReturn

SpecFind == InitFind /\ [][NextFind]_vars

\* ====================================== format_duration_string, on its own
\* ffprobe's duration text.  The texts are decimal numerals with a sign, a
\* whole part and a fraction that is a number of quarters ("100.5", "-5",
\* "3665"), the numeral "1e20", the words Rust's f64 parser accepts ("NaN",
\* "inf"), and texts it rejects ("invalid", the empty text); `padded` says
\* that the text is surrounded by white space.
DurationTexts ==
    [t : {"dec"}, neg : BOOLEAN, whole : 0..MaxSeconds, frac : 0..3]
        \cup [t : {"1e20", "inf"}, neg : BOOLEAN]
        \cup [t : {"NaN", "invalid", ""}]

\* str::trim
trim(duration_str) == [duration_str EXCEPT !.padded = FALSE]

\* str::parse::<f64>.  A finite value below 2^31 is its number of quarters;
\* 1e20 is exactly representable, and lies above u64::MAX.
parse_f64(s) ==
    IF s.padded THEN [ok |-> FALSE]
    ELSE CASE s.text.t = "dec" ->
                  [ok |-> TRUE, k |-> "fin",
                   q |-> IF s.text.neg THEN -(4 * s.text.whole + s.text.frac)
                                       ELSE 4 * s.text.whole + s.text.frac]
           [] s.text.t = "1e20" -> [ok |-> TRUE, k |-> "1e20", neg |-> s.text.neg]
           [] s.text.t = "inf" -> [ok |-> TRUE, k |-> "inf", neg |-> s.text.neg]
           [] s.text.t = "NaN" -> [ok |-> TRUE, k |-> "nan"]
           [] OTHER -> [ok |-> FALSE]

\* secs_float < 0.0 (false for NaN and for -0.0)
is_negative(x) ==
    CASE x.k = "fin" -> x.q < 0
      [] x.k = "nan" -> FALSE
      [] OTHER -> x.neg

\* f64::round on a value that is not negative: half away from zero.
round(x) ==
    IF x.k = "fin" THEN [x EXCEPT !.q = 4 * ((x.q + 2) \div 4)]
    ELSE x

RECURSIVE Digits(_)
Digits(n) == IF n < 10 THEN <<n>> ELSE Append(Digits(n \div 10), n % 10)

\* `as u64` on a rounded value that is not negative: the cast saturates at
\* u64::MAX, 2^64 - 1 = 18446744073709551615, and NaN becomes 0.  A u64 is
\* the sequence of its decimal digits.
as_u64(x) ==
    CASE x.k = "fin" -> Digits(x.q \div 4)
      [] x.k = "nan" -> <<0>>
      [] OTHER -> <<1, 8, 4, 4, 6, 7, 4, 4, 0, 7, 3, 7, 0, 9, 5, 5, 1, 6, 1, 5>>

\* Division of a u64 by a small divisor, digit by digit.
DivMod(ds, d) ==
    LET step[i \in 0..Len(ds)] ==
            IF i = 0 THEN [q |-> <<>>, r |-> 0]
            ELSE LET cur == step[i - 1].r * 10 + ds[i]
                 IN  [q |-> Append(step[i - 1].q, cur \div d), r |-> cur % d]
    IN  step[Len(ds)]

StripZeros(ds) ==
    IF \A i \in 1..Len(ds) : ds[i] = 0 THEN <<0>>
    ELSE LET k == CHOOSE i \in 1..Len(ds) :
                      ds[i] # 0 /\ \A j \in 1..(i - 1) : ds[j] = 0
         IN  SubSeq(ds, k, Len(ds))

u64_div(ds, d) == StripZeros(DivMod(ds, d).q)
u64_rem(ds, d) == DivMod(ds, d).r

\* {:02}: at least two digits, zeros in front.
Pad02(ds) == IF Len(ds) < 2 THEN <<0>> \o ds ELSE ds

\* The result is the sequence of the fields that the text separates by ':'.
format_duration_string(duration_str) ==
    LET parsed == parse_f64(trim(duration_str)) IN
    IF ~parsed.ok THEN None
    ELSE IF is_negative(parsed) THEN None
    ELSE LET secs == as_u64(round(parsed))
             hours == u64_div(secs, 3600)
             minutes == Digits(u64_rem(secs, 3600) \div 60)
             seconds == Digits(u64_rem(secs, 60))
         IN  IF hours # <<0>>
             THEN Some(<<Pad02(hours), Pad02(minutes), Pad02(seconds)>>)
             ELSE Some(<<Pad02(minutes), Pad02(seconds)>>)

InitFormat ==
    /\ pc = "format_unit"
    /\ history = <<>>
    /\ history_file = FileAbsent
    /\ current_folder_path_opt = None
    /\ cached_folder_scan = None
    /\ BlankRound /\ BlankShared /\ BlankHarness

\* One call, on any duration text.
FormatCall ==
    /\ pc = "format_unit"
    /\ \E duration_str \in [text : DurationTexts, padded : BOOLEAN] :
          fmt_log' = Some([duration_str |-> duration_str,
                           result |-> format_duration_string(duration_str)])
    /\ pc' = "format_done"
    /\ UNCHANGED <<round_vars, root_vars, note_vars, ledger_vars, mutex_vars,
                   env_vars, exit_code, scan_log, invalidated, rec_log,
                   load_log, draw_log, find_log, esc_pressed>>

\* The caller has taken the result.
FormatReturn ==
    /\ pc = "format_done"
    /\ fmt_log' = None
    /\ pc' = "format_unit"
    /\ UNCHANGED <<round_vars, root_vars, note_vars, ledger_vars, mutex_vars,
                   env_vars, exit_code, scan_log, invalidated, rec_log,
                   load_log, draw_log, find_log, esc_pressed>>

NextFormat == FormatCall \/ FormatReturn

SpecFormat == InitFormat /\ [][NextFormat]_vars

\* ===================================================== the shared selection
\* The value a request has copied once its get is over.
GetDone(q) == req[q].pc \in {"open", "streaming", "done"}
Got(q) == <<req[q].w1, req[q].w2>>
Whole(p) == <<p, p>>

\* The step in which request q's get returns.
GetReturns(q) == req[q].pc = "read2" /\ req'[q].pc # "read2"

\* C1: with the loop setting and the responder getting concurrently, every get
\* returns either absent, and then no set has completed, or one whole path
\* that was passed to some set; never a mixture of two values.
C1_GetNeverTorn ==
    [][\A q \in Requests :
          GetReturns(q) =>
             \/ /\ Got(q)' = Whole(NoneWord)
                /\ set_log.last = None
             \/ \E p \in set_log.passed : Got(q)' = Whole(p)]_vars

\* A get is in progress while the loop waits to set a different path over an
\* earlier one.
C1_Witness ==
    \E q \in Requests :
        /\ req[q].pc = "read2"
        /\ pc = "set_lock"
        /\ set_log.last # None
        /\ set_log.last # Some(selected_video_entry[1].path)

\* C2: most recent write wins: a get that returns after set(p) completed, with
\* no other set completed since, returns p, whatever was set before p.
C2_LastSetWins ==
    [][\A q \in Requests :
          (GetReturns(q) /\ set_log.last # None)
              => Got(q)' = Whole(set_log.last[1])]_vars

\* Two different paths have been set and a request holds the later one.
C2_Witness ==
    \E q \in Requests :
        /\ GetDone(q)
        /\ Cardinality(set_log.passed) >= 2
        /\ set_log.last # None
        /\ Got(q) = Whole(set_log.last[1])

Success == {"200", "206"}

\* C3: the response is decided by the value the request read: absent gives
\* 404 with the explanatory body and no file is opened; a path whose file
\* opens gives a success status serving exactly that file.
C3_ResponseFollowsSlot ==
    \A q \in Requests :
        req[q].pc \in {"streaming", "done"} =>
            /\ Got(q) = Whole(NoneWord) =>
                  /\ req[q].status = "404"
                  /\ req[q].body = "No video selected for streaming"
                  /\ req[q].served = None
                  /\ req[q].open_result = ""
            /\ (Got(q) # Whole(NoneWord) /\ req[q].open_result = "ok") =>
                  /\ req[q].status \in Success
                  /\ req[q].served = Some(Got(q))
                  /\ req[q].body = "file"
            /\ req[q].status \in Success => req[q].open_result = "ok"

\* A request is answered 404 for an empty slot while the loop is about to
\* set a path.
C3_Witness ==
    \E q \in Requests :
        /\ req[q].pc = "done"
        /\ req[q].status = "404"
        /\ Got(q) = Whole(NoneWord)
        /\ pc = "set_write1"

\* C4: a request that is opening or streaming a file does not hold the lock.
C4_NoLockWhileStreaming ==
    \A q \in Requests : req[q].pc \in {"open", "streaming"} => lock # q

\* A request streams while the loop holds the lock for a set.
C4_Witness ==
    \E q \in Requests : req[q].pc = "streaming" /\ lock = "ui" /\ pc = "set_write2"

\* C5: neither unit blocks the other: a get that has started returns (unless
\* the process exits first) even if the user never answers a prompt, and a
\* set the loop has started completes even while a file is being streamed.
C5_NeitherUnitBlocksTheOther ==
    /\ \A q \in Requests :
          (req[q].pc = "wait") ~> (GetDone(q) \/ exit_code # None)
    /\ (pc = "set_lock") ~> (pc = "menu_build")

\* A get is pending while the loop sits at the action menu's prompt.
C5_Witness ==
    \E q \in Requests : req[q].pc = "wait" /\ pc = "menu_prompt"

\* ============================================================ the scan cache
\* C8: after a root change (choosing a different folder, or the root prompt)
\* or a rescan request the cache is absent until the next scan, that scan
\* calls the scanner, and it scans the current root.
C8_FreshScanAfterRootChangeOrRescan ==
    /\ fresh_needed # "" => cached_folder_scan = None
    /\ scan_note.fresh # "" => scan_note.scanned
    /\ pc = "scan" => current_folder_path_opt = Some(folder_to_scan)
    /\ (pc \in {"select", "no_videos"} /\ scan_note.scanned) =>
           cached_folder_scan =
               Some([root |-> folder_to_scan, files |-> video_files_paths])

\* A second round's candidates, scanned anew after a rescan request.
C8_Witness ==
    /\ pc = "select"
    /\ scan_note = [fresh |-> "rescan", scanned |-> TRUE]
    /\ video_files_paths # <<>>
    /\ history # <<>>


\* Number of times the scanner ran in a logged candidate request.
Scans(entry) == IF entry.scanned THEN 1 ELSE 0

\* Two consecutive candidate requests for the same root with no invalidation
\* of the cache in between.
SameRootTwice ==
    /\ Len(scan_log) = 2
    /\ scan_log[1].root = scan_log[2].root
    /\ ~scan_log[1].inval

\* C6: two consecutive candidate requests with the same root and no
\* invalidation in between call the scanner at most once, and the second
\* returns the candidates of the first.
C6_SecondRequestUsesCache ==
    SameRootTwice =>
        /\ Scans(scan_log[1]) + Scans(scan_log[2]) <= 1
        /\ scan_log[1].ok /\ scan_log[2].ok
        /\ scan_log[1].files = scan_log[2].files

\* The first of the two called the scanner and found candidates.
C6_Witness ==
    /\ SameRootTwice
    /\ scan_log[2].scanned
    /\ scan_log[2].files # <<>>

\* C7: when the scanner fails the request returns the error and the cache is
\* absent afterwards, whatever it held, so the next request scans again.
C7_ScanErrorClearsCache ==
    /\ \A i \in 1..Len(scan_log) : scan_log[i].ok = scan_log[i].scanner_ok
    /\ (scan_log # <<>> /\ ~scan_log[1].scanner_ok) => cached_folder_scan = None
    /\ (Len(scan_log) = 2 /\ ~scan_log[2].scanner_ok) => scan_log[1].scanned

\* The scanner failed in a request that started with a record in the cache.
C7_Witness ==
    /\ scan_log # <<>>
    /\ ~scan_log[1].scanner_ok
    /\ scan_log[1].held

\* C9: an empty scan result is stored like any other: the cache holds it, and
\* the next request for the root without invalidation returns the empty list
\* without the scanner and without an error.
C9_EmptyListIsCached ==
    /\ (/\ scan_log # <<>>
        /\ scan_log[1].ok /\ scan_log[1].files = <<>>
        /\ ~invalidated) =>
           cached_folder_scan = Some([root |-> scan_log[1].root, files |-> <<>>])
    /\ (SameRootTwice /\ scan_log[2].ok /\ scan_log[2].files = <<>>) =>
           /\ scan_log[1].ok
           /\ ~scan_log[1].scanned
           /\ scan_log[1].files = <<>>

\* An empty scan, then a request answered from the cache.
C9_Witness ==
    /\ SameRootTwice
    /\ scan_log[2].scanned /\ scan_log[2].ok /\ scan_log[2].files = <<>>
    /\ ~scan_log[1].scanned

\* ================================================================ the ledger
\* C10: record adds exactly one entry: the count of the recorded path grows
\* by one, the count of every other path is unchanged and the length grows by
\* one, also when the path is already in the ledger.
C10_RecordAddsOneEntry ==
    rec_log # None =>
        LET before == rec_log[1].before
            str == to_string_lossy(rec_log[1].path)
        IN  /\ Count(history, str) = Count(before, str) + 1
            /\ \A other \in PathStrings \ {str} :
                  Count(history, other) = Count(before, other)
            /\ Len(history) = Len(before) + 1

\* A path is recorded that the ledger already holds, next to another path.
C10_Witness ==
    /\ rec_log # None
    /\ Count(rec_log[1].before, to_string_lossy(rec_log[1].path)) >= 1
    /\ \E other \in PathStrings \ {to_string_lossy(rec_log[1].path)} :
          Count(history, other) >= 1

\* Number of occurrences of entry e in ledger h.
EntryCount(h, e) == Cardinality({i \in 1..Len(h) : h[i] = e})

\* C11: after any sequence of records the ledger in memory and the persisted
\* ledger are sorted descending by picked_at, and every entry present before
\* a record is present, unmodified, after it.
C11_LedgerSortedAppendOnly ==
    /\ IsSortedDesc(history)
    /\ history_file.kind = "json" => IsSortedDesc(FromJson(history_file.data))
    /\ rec_log # None =>
          \A e \in Range(rec_log[1].before) :
              EntryCount(history, e) >= EntryCount(rec_log[1].before, e)

\* A record whose timestamp is older than an entry of the ledger: the new
\* entry is not the first, and the whole ledger was written.
C11_Witness ==
    /\ rec_log # None
    /\ \E i \in 2..Len(history) : EntryCount(rec_log[1].before, history[i]) = 0
    /\ history_file = FileJson(history)

C14_PersistFailureIsAnError ==
    (rec_log # None /\ rec_log[1].io # "ok") =>
        /\ ~rec_log[1].ok
        /\ Count(history, to_string_lossy(rec_log[1].path))
               = Count(rec_log[1].before, to_string_lossy(rec_log[1].path)) + 1

\* C16: whenever a record returns Ok the persisted ledger is the whole ledger
\* in memory, the new entry included.
C16_OkMeansPersisted ==
    (rec_log # None /\ rec_log[1].ok) => history_file = FileJson(history)

\* A load of no file, or of a file that opens and does not parse.
LoadTolerated(n) ==
    \/ n.file.kind = "absent" /\ n.io # "path_err"
    \/ n.file.kind = "corrupt" /\ n.io = "ok"

\* C13: load gives an empty ledger and no error when there is no persisted
\* ledger, and an empty ledger and no error after a warning when the
\* persisted ledger does not parse; the process goes on to the folder step.
C13_MissingOrCorruptLedgerLoadsEmpty ==
    (load_log # None /\ LoadTolerated(load_log[1])) =>
        /\ load_log[1].ok
        /\ load_log[1].history = <<>>
        /\ load_log[1].warning = (load_log[1].file.kind = "corrupt")
        /\ history = <<>>
        /\ pc = "get_folder"
        /\ exit_code = None

\* The process has started on a history file that does not parse.
C13_Witness ==
    /\ load_log # None
    /\ load_log[1].file.kind = "corrupt"
    /\ load_log[1].io = "ok"
    /\ pc = "get_folder"

\* C15: a failure to persist the ledger, or to determine or create the data
\* directory, ends the process with exit status 1; no further round runs.
C15_PersistOrDataDirFailureIsFatal ==
    /\ (rec_log # None /\ rec_log[1].io # "ok") =>
           (pc = "exited" /\ exit_code = Some(1))
    /\ (load_log # None /\ load_log[1].io = "path_err") =>
           (pc = "exited" /\ exit_code = Some(1))

\* ============================================================ the selection
\* C17: select on an empty candidate list fails, and neither the call nor
\* the handling of the failure changes the ledger, in memory or persisted, or
\* the slot.
C17_EmptySelectFailsAndChangesNothing ==
    [][/\ (pc = "select_unit" /\ video_files_paths' = <<>>) =>
              /\ pc' = "select_err"
              /\ selected_video_entry' = None
              /\ UNCHANGED <<history, history_file, slot>>
       /\ pc = "select_err" => UNCHANGED <<history, history_file, slot>>]_vars

\* A failed select with entries in the ledger and a path in the slot.
C17_Witness ==
    /\ pc = "select_err"
    /\ history # <<>>
    /\ history_file = FileJson(history)
    /\ slot # SlotOf(None)

\* C18: the loop tests for an empty list before the selection: select is
\* reached with a non-empty list only, and the no-videos menu with the empty
\* list only.
C18_SelectNeverGetsEmptyList ==
    /\ pc = "select" => video_files_paths # <<>>
    /\ pc = "no_videos" => video_files_paths = <<>>

\* A scan that found nothing has led to the no-videos menu.
C18_Witness ==
    /\ pc = "no_videos"
    /\ scan_note.scanned
    /\ cached_folder_scan = Some([root |-> folder_to_scan, files |-> <<>>])

\* A select call has returned for the candidates in video_files_paths.
Selected == pc \in {"select_ok", "select_err"}

\* C19: with one candidate select returns that candidate, whatever the ledger
\* holds and whatever the draw.
C19_SingleCandidateIsSelected ==
    (Selected /\ Len(video_files_paths) = 1) =>
        /\ pc = "select_ok"
        /\ selected_video_entry # None
        /\ selected_video_entry[1].path = video_files_paths[1]

\* The only candidate is the one the ledger already holds twice.
C19_Witness ==
    /\ pc = "select_ok"
    /\ Len(video_files_paths) = 1
    /\ Count(history, to_string_lossy(video_files_paths[1])) = 2

\* C20: for a non-empty candidate list select returns an entry whose path is
\* one of the candidates and whose pick_count is the number of ledger entries
\* with exactly that candidate's path string.
C20_SelectedEntryCountsLedger ==
    (Selected /\ video_files_paths # <<>>) =>
        /\ pc = "select_ok"
        /\ selected_video_entry # None
        /\ selected_video_entry[1].path \in Range(video_files_paths)
        /\ selected_video_entry[1].pick_count =
               Cardinality({i \in 1..Len(history) :
                   history[i].path = to_string_lossy(selected_video_entry[1].path)})

\* The selected candidate was picked before, another candidate has a
\* different count, and the ledger also holds entries of other paths.
C20_Witness ==
    /\ pc = "select_ok"
    /\ Len(video_files_paths) >= 2
    /\ selected_video_entry[1].pick_count >= 1
    /\ \E p \in Range(video_files_paths) :
          Count(history, to_string_lossy(p)) # selected_video_entry[1].pick_count
    /\ Len(history) > selected_video_entry[1].pick_count

\* ============================================================== the weights
\* Fractions with positive denominators, compared by cross-multiplication.
FracLess(a, b) == a.num * b.den < b.num * a.den
FracEq(a, b) == a.num * b.den = b.num * a.den
FracAdd(a, b) == [num |-> a.num * b.den + b.num * a.den, den |-> a.den * b.den]
FracDiv(a, b) == [num |-> a.num * b.den, den |-> a.den * b.num]
One == [num |-> 1, den |-> 1]

\* C21: the weight of an entry with count c is 1/(c+1): it is exactly 1 for
\* c = 0, which is the largest weight, it is strictly positive, and of two
\* entries the one with the larger count has the strictly smaller weight.
C21_WeightIsReciprocalOfCountPlusOne ==
    \A i \in 1..Len(draw_log) :
        LET c == draw_log[i].pick_count
            w == draw_log[i].weight
        IN  /\ w.den > 0
            /\ FracEq(w, [num |-> 1, den |-> c + 1])
            /\ FracLess([num |-> 0, den |-> 1], w)
            /\ (c = 0) => FracEq(w, One)
            /\ (c > 0) => FracLess(w, One)
            /\ \A j \in 1..Len(draw_log) :
                   (draw_log[j].weight.den > 0 /\ c < draw_log[j].pick_count)
                       => FracLess(draw_log[j].weight, w)

\* The entries of the draw have the counts 0, 1 and 3.
C21_Witness ==
    /\ pc = "draw_done"
    /\ {draw_log[i].pick_count : i \in 1..Len(draw_log)} = {0, 1, 3}

\* The share of entry i in the sum of the weights of the draw.
TotalWeight(i) ==
    IF i = 1 THEN draw_log[1].weight
    ELSE IF i = 2 THEN FracAdd(draw_log[1].weight, draw_log[2].weight)
    ELSE FracAdd(FracAdd(draw_log[1].weight, draw_log[2].weight), draw_log[3].weight)
Mass(i) == FracDiv(draw_log[i].weight, TotalWeight(Len(draw_log)))

\* C22: when one entry of a draw has count 0 and every other entry has a
\* count of at least 10, the share of the count-0 entry in the total weight
\* is strictly larger than the share of every other entry.
C22_UnpickedOutweighsOftenPicked ==
    \A i \in 1..Len(draw_log) :
        (/\ draw_log[i].pick_count = 0
         /\ \A j \in 1..Len(draw_log) \ {i} : draw_log[j].pick_count >= 10)
            => \A j \in 1..Len(draw_log) \ {i} : FracLess(Mass(j), Mass(i))

\* A draw over three entries with the counts 0, 10 and 11.
C22_Witness ==
    /\ pc = "draw_done"
    /\ Len(draw_log) = 3
    /\ {draw_log[i].pick_count : i \in 1..Len(draw_log)} = {0, 10, 11}

\* ============================================================ the responder
\* The server was spawned by setup_streaming_server_logic.
Started == server \in {"running", "stopping", "stopped", "timed_out"}

\* C23: the responder is started only at startup and only with streaming
\* enabled, and whenever the process has exited after the responder was
\* started, the stop of the responder was carried out before the exit.
C23_StartedOnceAndStoppedBeforeExit ==
    /\ Started => stream_state_arc
    /\ (exit_code # None /\ Started) => server \in {"stopped", "timed_out"}

\* C24: once the stop is requested the process reaches its normal exit,
\* whether or not the responses in flight ever end; a stop that timed out
\* has been followed by the normal exit too.
C24_StopIsBounded ==
    /\ (pc = "stopping") ~> (pc = "exited" /\ exit_code = Some(0))
    /\ [](server = "timed_out" => (pc = "exited" /\ exit_code = Some(0)))

\* The process has exited after the timeout while a file was being streamed.
C24_Witness ==
    /\ exit_code = Some(0)
    /\ server = "timed_out"
    /\ \E q \in Requests : req[q].pc = "streaming"

\* The positions inside the locked update of the slot.
InSet == pc \in {"set_lock", "set_write1", "set_write2"}

\* C25: after a setup that found no local address or could not bind, the
\* process runs on without streaming: there is no StreamState, neither
\* streaming action is offered, the slot is never written, no request is
\* served, and the process has not ended with an error at startup.
C25_UnavailableResponderDisablesStreaming ==
    server = "unavailable" =>
        /\ ~stream_state_arc
        /\ ~OffersStream /\ ~OffersLink
        /\ ~InSet /\ pc \notin {"menu_read1", "menu_read2", "start"}
        /\ slot = SlotOf(None)
        /\ set_log = NoSetLog
        /\ \A q \in Requests : req[q] = NoRequest

\* Without a responder a second pick has been recorded and its menu is shown.
C25_Witness ==
    /\ server = "unavailable"
    /\ pc = "menu_prompt"
    /\ rec_log # None /\ rec_log[1].ok
    /\ Len(history) = 2

\* ================================================================ the rounds
\* The positions of loop_user_actions.
InMenu == InSet \/ pc \in {"menu_build", "menu_read1", "menu_read2", "menu_prompt"}

\* C26: the steps of a pick come in order.  The selection starts with the
\* candidates of this round and nothing selected; the record starts with an
\* entry selected from these candidates whose count is the number of its
\* ledger entries, so nothing was appended since the selection; the menu,
\* and with it every update of the slot, starts after exactly one append of
\* the selected path; before the candidates of a round are known nothing of
\* an earlier pick is left; and the slot changes only inside the update,
\* to the path of this round's pick.
C26_PickStepsInOrder ==
    /\ [](pc = "select" =>
            /\ cached_folder_scan = Some([root |-> folder_to_scan,
                                          files |-> video_files_paths])
            /\ selected_video_entry = None)
    /\ [](pc = "record" =>
            /\ selected_video_entry # None
            /\ selected_video_entry[1].path \in Range(video_files_paths)
            /\ Count(history, to_string_lossy(selected_video_entry[1].path))
                   = selected_video_entry[1].pick_count)
    /\ [](InMenu =>
            /\ selected_video_entry # None
            /\ selected_video_entry[1].path \in Range(video_files_paths)
            /\ Count(history, to_string_lossy(selected_video_entry[1].path))
                   = selected_video_entry[1].pick_count + 1)
    /\ [](pc \in {"get_folder", "prompt_folder", "validate", "scan"} =>
            /\ selected_video_entry = None
            /\ video_files_paths = <<>>)
    /\ [][slot' # slot =>
            /\ pc \in {"set_write1", "set_write2"}
            /\ \/ slot'.w1 = selected_video_entry[1].path
               \/ slot'.w2 = selected_video_entry[1].path]_vars

\* The slot is being updated to the second pick of the session, over the
\* first one.
C26_Witness ==
    /\ pc = "set_write2"
    /\ Len(history) = 2
    /\ set_log.last # None
    /\ set_log.last # Some(selected_video_entry[1].path)

\* C27 as stated: every round with streaming enabled that recorded its pick
\* ends with the slot holding the picked path.
C27_SlotUpdatedInEveryRound ==
    [][(stream_state_arc /\ pc = "menu_prompt"
            /\ pc' \in {"get_folder", "shutdown"})
          => slot = SlotOf(Some(selected_video_entry[1].path))]_vars

\* C27, amended: the slot is updated to the picked path when the stream
\* action is taken for the pick, which is after the pick was appended to the
\* ledger, and only then; from the end of that update to the start of the
\* next one the slot holds that path, which is what a request that locks the
\* slot in between copies.
C27_SlotUpdatedByStreamAction ==
    /\ [][(pc = "set_write2" /\ pc' # "set_write2") =>
            /\ slot' = SlotOf(Some(selected_video_entry[1].path))
            /\ set_log'.last = Some(selected_video_entry[1].path)
            /\ Count(history, to_string_lossy(selected_video_entry[1].path))
                   = selected_video_entry[1].pick_count + 1]_vars
    /\ [][slot' # slot => pc \in {"set_write1", "set_write2"}]_vars
    /\ [][(pc = "menu_prompt" /\ pc' \notin {"menu_prompt", "set_lock"})
            => slot' = slot]_vars
    /\ []((set_log.last # None /\ pc \notin {"set_write1", "set_write2"})
            => slot = SlotOf(Some(set_log.last[1])))
    /\ [](set_log.last = None /\ pc # "set_write2" => slot.w2 = NoneWord)

\* A request copies the path of the second pick after the stream action was
\* taken for it, the first pick having been streamed before.
C27_Witness ==
    /\ Len(history) = 2
    /\ pc = "menu_prompt"
    /\ set_log.last = Some(selected_video_entry[1].path)
    /\ Cardinality(set_log.passed) = 2
    /\ \E q \in Requests :
          /\ req[q].pc = "open"
          /\ Got(q) = Whole(selected_video_entry[1].path)

\* C28: a step of a request leaves the slot, the scan cache, the current
\* root and the ledger, in memory and on disk, as they are, and everything
\* else of the loop too; a step of the loop leaves the requests as they
\* are.  The mutex and the slot are all the two units share.
C28_ResponderOnlyReads ==
    [][IF req' # req
       THEN UNCHANGED <<slot, cached_folder_scan, current_folder_path_opt,
                        history, history_file, pc, round_vars, set_log>>
       ELSE TRUE]_vars

\* A file is being streamed while the slot, the cache and the ledger are
\* filled.
C28_Witness ==
    /\ \E q \in Requests : req[q].pc = "streaming"
    /\ slot # SlotOf(None)
    /\ cached_folder_scan # None
    /\ Len(history) = 2
    /\ history_file = FileJson(history)

\* ================================================================ the errors
\* The process has ended with an error that main printed.
Failed == exit_code = Some(1)

\* C29 as stated: an error reaches main only from the data directory or
\* the persistence of the ledger.
C29_OnlyPersistenceErrorsAreFatal ==
    Failed =>
        \/ load_log # None /\ ~load_log[1].ok
        \/ rec_log # None /\ ~rec_log[1].ok

\* C29, amended: the step in which the process fails is the load of the
\* ledger with a failure of the data directory or of opening the file, the
\* record of a pick with a failure add_to_history reports, or a prompt of
\* one of the two menus (the Select itself, or the prompts of view_history).
\* An unparsable ledger, an invalid root, a failed scan, a failed selection
\* and a responder that cannot start never end the process.
C29_OnlyPersistenceAndPromptErrorsAreFatal ==
    [][(~Failed /\ Failed') =>
          \/ /\ pc = "start"
             /\ load_log'[1].io \in {"path_err", "io_err"}
             /\ ~load_log'[1].ok
          \/ /\ pc = "record"
             /\ rec_log'[1].io \in {"path_err", "open_err", "write_err"}
          \/ pc \in {"no_videos", "menu_prompt"}]_vars

\* A pick is about to be recorded in a process that found an unparsable
\* ledger and could not start the responder.
C29_Witness ==
    /\ pc = "record"
    /\ history_file = FileCorrupt
    /\ server = "unavailable"
    /\ history = <<>>

\* C30: a round in which the validation of the root fails, or the scan, ends
\* there: the root is unselected and the cache absent afterwards, nothing is
\* selected, the ledger is as before; and from an unselected root the next
\* step of the loop is the prompt for the root.
C30_FailedRootReturnsToPrompt ==
    /\ [][(\/ pc = "validate" /\ pc' \notin {"validate", "scan"}
           \/ pc = "scan" /\ pc' \notin {"scan", "select", "no_videos"}) =>
            /\ pc' = "get_folder"
            /\ current_folder_path_opt' = None
            /\ cached_folder_scan' = None
            /\ selected_video_entry' = None
            /\ UNCHANGED <<history, history_file, slot>>]_vars
    /\ [][(pc = "get_folder" /\ current_folder_path_opt = None /\ pc' # pc)
            => pc' = "prompt_folder"]_vars

\* The root has just been reset by a failed validation or scan, in a session
\* that has recorded a pick.
C30_Witness ==
    /\ pc = "get_folder"
    /\ current_folder_path_opt = None
    /\ cached_folder_scan = None
    /\ fresh_needed = ""
    /\ load_log = None
    /\ history # <<>>
    /\ rec_log # None

\* ================================================================ discovery
\* The video files of the directories above, by name: those directly in
\* the root and the one in the subdirectory.
TopVideos == {"A.MP4", "b.mkv"}
DeepVideos == {"sub/f.Mkv"}
Present(tree, names) == {n \in names : EntryRank(n) \in tree}

\* C31: find_video_files returns exactly the files with a recognized
\* extension, whatever its case, in ascending order without repetition:
\* those directly in the root when the scan is not recursive, those at any
\* depth when it is; entries that are not files, files with another or no
\* extension are left out; a root that is not a directory gives an error,
\* and a directory that can be walked gives a list.
C31_FindReturnsSortedVideoFiles ==
    find_log # None =>
        LET f == find_log[1]
            files == f.result.files
        IN  /\ ~f.is_dir => ~f.result.ok
            /\ (f.is_dir /\ f.walk_ok) => f.result.ok
            /\ f.result.ok =>
                  /\ Range(files) =
                        Present(f.tree, IF f.recursive
                                        THEN TopVideos \cup DeepVideos
                                        ELSE TopVideos)
                  /\ \A i \in 1..(Len(files) - 1) :
                        EntryRank(files[i]) < EntryRank(files[i + 1])

\* A non-recursive scan of a directory that holds every entry has returned
\* the two videos of the root.
C31_Witness ==
    /\ pc = "find_done"
    /\ find_log[1].tree = 1..Len(DirEntries)
    /\ ~find_log[1].recursive
    /\ find_log[1].result = [ok |-> TRUE, files |-> <<"A.MP4", "b.mkv">>]

\* ============================================================ the loop state
\* C32: whenever the cache holds a record, the current root is set and is
\* the root of the record; a step that unsets the root leaves the cache
\* absent.
C32_CacheBelongsToCurrentRoot ==
    /\ [](cached_folder_scan # None =>
            current_folder_path_opt = Some(cached_folder_scan[1].root))
    /\ [][(current_folder_path_opt # None /\ current_folder_path_opt' = None)
            => cached_folder_scan' = None]_vars
    /\ [](current_folder_path_opt = None => cached_folder_scan = None)

\* The second pick of the session was made from a folder chosen at the
\* prompt after the root had been unset, and the cache holds its scan.
C32_Witness ==
    /\ pc = "menu_prompt"
    /\ Len(history) = 2
    /\ scan_note = [fresh |-> "root", scanned |-> TRUE]
    /\ cached_folder_scan = Some([root |-> "r2", files |-> video_files_paths])

\* C33: a path in the slot, in either part, is a path the ledger in memory
\* has an entry for, under its string form.
C33_SlotHoldsRecordedPath ==
    \A w \in {slot.w1, slot.w2} :
        w # NoneWord => Count(history, to_string_lossy(w)) >= 1

\* The slot holds a path whose string form differs from it, while another
\* file is selected.
C33_Witness ==
    /\ pc = "menu_prompt"
    /\ slot = SlotOf(Some("x1.mp4"))
    /\ selected_video_entry[1].path = "a.mp4"

\* C34: the slot is absent at the start; a part of the slot that holds a
\* path holds a path after every step; and outside the update made by the
\* stream action no step changes the slot.
C34_SlotNeverCleared ==
    /\ [](pc = "start" => slot = SlotOf(None))
    /\ [][/\ slot.w1 # NoneWord => slot'.w1 # NoneWord
          /\ slot.w2 # NoneWord => slot'.w2 # NoneWord]_vars
    /\ [][pc \notin {"set_write1", "set_write2"} => slot' = slot]_vars

\* The root is being chosen anew while the slot holds a file streamed
\* earlier.
C34_Witness ==
    /\ pc = "prompt_folder"
    /\ slot # SlotOf(None)
    /\ cached_folder_scan = None

\* C35: the ledger in memory changes only at the load and at the record,
\* and the file only at the record; the record adds exactly one entry, for
\* the selected path; a successful select is followed by the record as the
\* next step of the loop, and the record by the menu (or the failed exit);
\* inside the menu the ledger and the selected entry stay as they are, and
\* a select is only ever started by a scan.
C35_OneRecordPerSelect ==
    /\ [][history' # history =>
            \/ pc = "start"
            \/ /\ pc = "record"
               /\ Len(history') = Len(history) + 1
               /\ Count(history', to_string_lossy(selected_video_entry[1].path))
                      = Count(history, to_string_lossy(selected_video_entry[1].path)) + 1]_vars
    /\ [][history_file' # history_file => pc = "record"]_vars
    /\ [][(pc = "select" /\ selected_video_entry' # None) => pc' = "record"]_vars
    /\ [][(pc = "record" /\ pc' # pc) =>
            /\ history' # history
            /\ pc' \in {"menu_build", "exited"}]_vars
    /\ [][InMenu =>
            /\ UNCHANGED <<history, history_file>>
            /\ InMenu' => UNCHANGED selected_video_entry
            /\ pc' \notin {"select", "record"}]_vars
    /\ [][(pc' = "select" /\ pc # "select") => pc = "scan"]_vars

\* The menu of the second pick is shown again after the stream action.
C35_Witness ==
    /\ pc = "menu_prompt"
    /\ Len(history) = 2
    /\ is_current
    /\ set_log.last = Some(selected_video_entry[1].path)

\* The two streaming actions among the items of the menu.
StreamingItems ==
    MenuItems \cap {"Stream this video", "Get Streaming Link (current video)"}

\* C36: at the prompt of the action menu, with streaming enabled exactly one
\* streaming action is among the items: the link when the slot holds the
\* selected path, the stream action otherwise; without streaming neither.
\* The update made by the stream action ends with the slot holding the
\* selected path and leads back to the menu.
C36_OneStreamingActionOffered ==
    /\ [](pc = "menu_prompt" =>
            IF stream_state_arc
            THEN StreamingItems =
                    IF slot = SlotOf(Some(selected_video_entry[1].path))
                    THEN {"Get Streaming Link (current video)"}
                    ELSE {"Stream this video"}
            ELSE StreamingItems = {})
    /\ [][(pc = "set_write2" /\ pc' # pc) =>
            /\ slot' = SlotOf(Some(selected_video_entry[1].path))
            /\ pc' = "menu_build"]_vars
    /\ [][pc' = "set_lock" =>
            pc = "set_lock" \/ (pc = "menu_prompt" /\ OffersStream)]_vars

\* The link is offered for the second pick after its stream action, the
\* first pick having been streamed before.
C36_Witness ==
    /\ pc = "menu_prompt"
    /\ OffersLink
    /\ Len(history) = 2
    /\ Cardinality(set_log.passed) = 2

\* The loop has been left.
Quitting == pc \in {"shutdown", "stopping", "exited"}

\* C37: a menu prompt that returns no choice leads out of the loop, as Quit
\* does; once the loop is left nothing is scanned, selected, recorded or
\* written to the slot; the process then reaches its normal exit, and at
\* the normal exit a server that was started has had its stop carried out.
C37_EscQuitsAndQuitShutsDown ==
    /\ [][(~esc_pressed /\ esc_pressed') =>
            /\ pc \in {"no_videos", "menu_prompt"}
            /\ pc' = "shutdown"]_vars
    /\ [][Quitting =>
            /\ Quitting'
            /\ UNCHANGED <<history, history_file, slot, set_log, root_vars,
                           selected_video_entry, video_files_paths>>]_vars
    /\ (pc = "shutdown") ~> (pc = "exited" /\ exit_code = Some(0))
    /\ []((pc = "exited" /\ exit_code = Some(0)) =>
            server \in {"off", "unavailable", "stopped", "timed_out"})

\* The process has exited normally after Esc, with the server stopped and a
\* pick recorded.
C37_Witness ==
    /\ esc_pressed
    /\ pc = "exited"
    /\ exit_code = Some(0)
    /\ server = "stopped"
    /\ history # <<>>

\* C38: the history view changes nothing.  From the no-videos menu the loop
\* starts over with ledger, cache, root and slot as they were, takes the
\* current root again and, the root passing its validation, gets the empty
\* list from the cache without a call of the scanner and shows the
\* no-videos menu; from the action menu the menu of the same file is built
\* again, with ledger, cache, root, candidates and slot as they were.
C38_ViewHistoryChangesNothing ==
    /\ [][(/\ pc = "no_videos" /\ pc' = "get_folder"
           /\ current_folder_path_opt' = current_folder_path_opt) =>
            UNCHANGED <<history, history_file, cached_folder_scan, slot>>]_vars
    /\ [][(pc = "get_folder" /\ current_folder_path_opt # None /\ pc' # pc) =>
            /\ pc' = "validate"
            /\ folder_to_scan' = current_folder_path_opt[1]
            /\ UNCHANGED root_vars]_vars
    /\ [][(/\ pc = "scan" /\ pc' # pc
           /\ cached_folder_scan = Some([root |-> folder_to_scan, files |-> <<>>])) =>
            /\ pc' = "no_videos"
            /\ ~scan_note'.scanned
            /\ UNCHANGED root_vars]_vars
    /\ [][(pc = "menu_prompt" /\ pc' = "menu_build") =>
            UNCHANGED <<history, history_file, root_vars, slot, folder_to_scan,
                        selected_video_entry, video_files_paths>>]_vars

\* The no-videos menu is shown again, from the cache, in a session with a
\* ledger.
C38_Witness ==
    /\ pc = "no_videos"
    /\ ~scan_note.scanned
    /\ history # <<>>
    /\ cached_folder_scan = Some([root |-> folder_to_scan, files |-> <<>>])

\* The value of a field of at most nine digits.
FieldValue(ds) ==
    LET val[i \in 0..Len(ds)] ==
            IF i = 0 THEN 0 ELSE val[i - 1] * 10 + ds[i]
    IN  val[Len(ds)]

\* HH:MM:SS or MM:SS: two or three fields, minutes and seconds of exactly two
\* digits and below 60, hours of two digits or more without a zero in front
\* of more than two, and three fields only with an hour part above 0.
WellFormedDuration(fields) ==
    /\ Len(fields) \in {2, 3}
    /\ \A i \in 1..Len(fields) : Len(fields[i]) >= 2
    /\ \A i \in (Len(fields) - 1)..Len(fields) :
          Len(fields[i]) = 2 /\ FieldValue(fields[i]) < 60
    /\ Len(fields) = 3 =>
          /\ StripZeros(fields[1]) # <<0>>
          /\ Len(fields[1]) > 2 => fields[1][1] # 0

\* 1e20, one followed by twenty zeros.
OneE20 == <<1>> \o [i \in 1..20 |-> 0]

\* C39: a duration text that parses to a number of seconds that is not
\* negative is formatted as that number rounded to the nearest integer, as
\* HH:MM:SS when the hour part is above 0 and as MM:SS otherwise, the fields
\* padded with zeros to two digits and minutes and seconds below 60; a
\* negative or unparsable text gives no value.  (Nothing is required of NaN
\* and of the infinities, which are not numbers of seconds.)
C39_FormatsRoundedSeconds ==
    fmt_log # None =>
        LET duration_str == fmt_log[1].duration_str
            text == duration_str.text
            result == fmt_log[1].result
        IN  CASE text.t \in {"invalid", ""} -> result = None
              [] text.t = "dec" /\ text.neg /\ (text.whole > 0 \/ text.frac > 0) ->
                     result = None
              [] text.t = "dec" /\ ~(text.neg /\ (text.whole > 0 \/ text.frac > 0)) ->
                     /\ result # None
                     /\ WellFormedDuration(result[1])
                     /\ LET fields == result[1]
                            total == IF Len(fields) = 3
                                     THEN 3600 * FieldValue(fields[1])
                                              + 60 * FieldValue(fields[2])
                                              + FieldValue(fields[3])
                                     ELSE 60 * FieldValue(fields[1])
                                              + FieldValue(fields[2])
                        IN  /\ 4 * total - (4 * text.whole + text.frac) \in -2..2
                            /\ Len(fields) = 3 <=> total >= 3600
              [] text.t = "1e20" /\ text.neg -> result = None
              [] text.t = "1e20" /\ ~text.neg ->
                     /\ result # None
                     /\ WellFormedDuration(result[1])
                     /\ Len(result[1]) = 3
                     /\ StripZeros(result[1][1]) = u64_div(OneE20, 3600)
                     /\ 60 * FieldValue(result[1][2]) + FieldValue(result[1][3])
                            = u64_rem(OneE20, 3600)
              [] OTHER -> TRUE

\* The part of C39 below 2^64 seconds.
C39_InRange ==
    (fmt_log # None /\ fmt_log[1].duration_str.text.t # "1e20")
        => C39_FormatsRoundedSeconds

====
